---- MODULE Spec2Model ----
(***************************************************************************)
(* Hector: the R wrapper (src/src/rcpp_hector.cpp), the example driver     *)
(* (src/misc/main-api.cpp) and the flux-pool visitor                       *)
(* (src/src/csv_fluxpool_visitor.cpp), over a model of Hector::Core.       *)
(* Hector::Core itself is not part of the sources at hand; its operations  *)
(* (Core_* and mkcore/getcore/delcore) follow the written specification.   *)
(***************************************************************************)
EXTENDS Integers, Sequences, FiniteSets, TLC

\* ------------------------------------------------------------ bounds
MaxCores == 2          \* cores ever created in the registry
MaxSpinups == 2        \* spin-up executions per core
NumVals == 2           \* distinct magnitudes of a value
MaxSpinSteps == 2      \* steps of one spin-up
MaxMagnitude == 2      \* initial magnitude of a pool
MaxPoolOps == 3        \* operations on the pools of one run
MaxDates == 3          \* length of the date vector of one sendmessage

\* ------------------------------------------------------------ configuration
StartDate == 1         \* start date of the configuration file
EndDate == 3           \* end date of the configuration file

Dates == 0..EndDate
Val == 0..(NumVals - 1)
NoVal == 0 - 1
NULL == [null |-> TRUE]
NoFail == 0 - 1

\* ------------------------------------------------------------ constants
ResetDefaultDate_asStart == StartDate
ResetDefaultDate == 0      \* reset(Environment core, double date = 0)
RunDefaultDate == -1       \* run(Environment core, double runtodate = -1.0)
InitResetDate == 0         \* rv["reset_date"] = 0
NA_REAL == -9              \* R's NA in a numeric vector
UndefinedIndex == -1       \* Hector::Core::undefinedIndex()

M_GETDATA == "GETDATA"
M_SETDATA == "SETDATA"
D_FFI_EMISSIONS == "ffi_emissions"
D_DACCS_UPTAKE == "daccs_uptake"
D_LUC_EMISSIONS == "luc_emissions"
D_LUC_UPTAKE == "luc_uptake"
D_EMISSIONS_SO2 == "SO2_emissions"
D_EMISSIONS_BC == "BC_emissions"
D_EMISSIONS_OC == "OC_emissions"
D_EMISSIONS_CF4 == "CF4_emissions"
D_EMISSIONS_HFC22 == "HFC22_emissions"
D_GLOBAL_TAS == "global_tas"
D_CO2_CONC == "CO2_concentration"
D_RF_TOTAL == "RF_tot"
U_UNDEFINED == "U_UNDEFINED"
U_PGC_YR == "U_PGC_YR"
U_GG_S == "U_GG_S"
U_TG == "U_TG"
U_GG == "U_GG"
U_DEGC == "U_DEGC"
U_PPMV_CO2 == "U_PPMV_CO2"
U_W_M2 == "U_W_M2"

BiomeNames == {"global", "boreal"}

\* ============================================================ Hector::Core
\* The configuration file of the wrapper's cores.
IniFile == [start |-> StartDate, end |-> EndDate]

\* A core after construction by mkcore: no dates and no series before the
\* configuration is parsed.
NewCore ==
  [setup |-> <<>>, startDate |-> 0, endDate |-> 0, currentDate |-> 0,
   spinups |-> 0, vals |-> <<>>, emiss |-> <<>>, other |-> {},
   biomes |-> {"global"}]

\* State of the components at the core's current date; at the start date it
\* is the post-spin-up snapshot.
SpinupVal == 0
CoreState(c) ==
  IF c.currentDate = c.startDate THEN SpinupVal ELSE c.vals[c.currentDate]

\* One component step for a date under that date's forcing.
Step(s, e) == (s + e + 1) % NumVals

\* Core::mkcore: appends a new core, returns its index (0-based).
mkcore(reg) == [reg |-> Append(reg, NewCore), idx |-> Len(reg)]

\* Core::getcore: the core at idx, or NULL.
getcore(reg, idx) == IF idx >= 0 /\ idx < Len(reg) THEN reg[idx + 1] ELSE NULL

\* Core::delcore: shuts the core down and clears its slot.
delcore(reg, idx) ==
  IF idx >= 0 /\ idx < Len(reg) THEN [reg EXCEPT ![idx + 1] = NULL] ELSE reg

\* Core::init, INIToCoreReader::parse, Core::prepareToRun: each records that
\* it ran; parse sets the dates of the run and the (empty) series.
Core_init(c) == [c EXCEPT !.setup = Append(@, "init")]
Core_parse(c, ini) ==
  [c EXCEPT !.setup = Append(@, "parse"),
            !.startDate = ini.start, !.endDate = ini.end,
            !.currentDate = ini.start,
            !.vals = [d \in (ini.start + 1)..ini.end |-> NoVal],
            !.emiss = [d \in ini.start..ini.end |-> 0]]
Core_prepareToRun(c) == [c EXCEPT !.setup = Append(@, "prepareToRun")]

Core_getCurrentDate(c) == c.currentDate
Core_getStartDate(c) == c.startDate
Core_getEndDate(c) == c.endDate

\* The main loop: one date at a time up to target; a failing step leaves the
\* core at the last completed date.
RECURSIVE StepTo(_, _, _)
StepTo(c, target, fail) ==
  IF c.currentDate >= target THEN [core |-> c, err |-> FALSE]
  ELSE LET d == c.currentDate + 1 IN
       IF fail = d THEN [core |-> c, err |-> TRUE]
       ELSE StepTo([c EXCEPT !.currentDate = d,
                             !.vals[d] = Step(CoreState(c), c.emiss[d])],
                   target, fail)

\* Core::run: to runtodate, or to the end date for a non-positive date; the
\* first run executes spin-up (fail = start date: spin-up diverges).
Core_run(c, runtodate, fail) ==
  LET target == IF runtodate <= 0 THEN c.endDate ELSE runtodate
      needSpin == c.spinups = 0
  IN IF needSpin /\ fail = c.startDate THEN [core |-> c, err |-> TRUE]
     ELSE StepTo(IF needSpin THEN [c EXCEPT !.spinups = 1] ELSE c, target, fail)

\* Core::reset: before the start date reruns spin-up; to the start date or a
\* date already run restores the state of that date; a date not yet reached
\* cannot be reconstructed.
Core_reset(c, date, fail) ==
  IF fail THEN [core |-> c, err |-> TRUE]
  ELSE IF date < c.startDate
    THEN [core |-> [c EXCEPT !.currentDate = c.startDate,
                             !.vals = [d \in DOMAIN c.vals |-> NoVal],
                             !.spinups = @ + 1],
          err |-> FALSE]
  ELSE IF date > c.currentDate THEN [core |-> c, err |-> TRUE]
  ELSE [core |-> [c EXCEPT !.currentDate = date,
                           !.vals = [d \in DOMAIN c.vals |->
                                       IF d <= date THEN @[d] ELSE NoVal]],
        err |-> FALSE]

\* unitval::parseUnitsName
KnownUnits == {"Pg C/yr", "degC"}
parseUnitsName(unitstr) ==
  IF unitstr = "Pg C/yr" THEN [utype |-> U_PGC_YR, err |-> FALSE]
  ELSE IF unitstr = "degC" THEN [utype |-> U_DEGC, err |-> FALSE]
  ELSE [utype |-> U_UNDEFINED, err |-> TRUE]

unitsName(utype) ==
  IF utype = U_PGC_YR THEN "Pg C/yr"
  ELSE IF utype = U_DEGC THEN "degC"
  ELSE IF utype = U_PPMV_CO2 THEN "ppmv CO2"
  ELSE IF utype = U_W_M2 THEN "W/m2"
  ELSE "(undefined)"

\* The unit of each capability: the inputs a SETDATA can set besides the
\* fossil-fuel emissions, and the outputs a GETDATA can read.
OtherInputUnit ==
  [x \in {D_DACCS_UPTAKE, D_LUC_EMISSIONS, D_LUC_UPTAKE} |-> U_PGC_YR]
  @@ (D_EMISSIONS_SO2 :> U_GG_S) @@ (D_EMISSIONS_BC :> U_TG)
  @@ (D_EMISSIONS_OC :> U_TG) @@ (D_EMISSIONS_CF4 :> U_GG)
  @@ (D_EMISSIONS_HFC22 :> U_GG)
OutputUnit ==
  (D_GLOBAL_TAS :> U_DEGC) @@ (D_CO2_CONC :> U_PPMV_CO2) @@ (D_RF_TOTAL :> U_W_M2)

\* Core::sendMessage: routes by message type and capability.
Core_sendMessage(c, msgstr, capstr, date, value, utype) ==
  LET bad == [core |-> c, err |-> TRUE, value |-> 0, utype |-> U_UNDEFINED]
      done(c1) == [core |-> c1, err |-> FALSE, value |-> 0, utype |-> U_UNDEFINED]
  IN
  IF msgstr = M_SETDATA /\ capstr = D_FFI_EMISSIONS
    THEN IF utype # U_PGC_YR \/ date \notin DOMAIN c.emiss \/ value \notin Val THEN bad
         ELSE done([c EXCEPT !.emiss[date] = value])
  ELSE IF msgstr = M_SETDATA /\ capstr \in DOMAIN OtherInputUnit
    THEN IF utype # OtherInputUnit[capstr] \/ date \notin DOMAIN c.emiss THEN bad
         ELSE done([c EXCEPT !.other =
                      {x \in @ : ~(x[1] = capstr /\ x[2] = date)}
                        \cup {<<capstr, date, value>>}])
  ELSE IF msgstr = M_GETDATA /\ capstr = D_FFI_EMISSIONS
    THEN IF date \notin DOMAIN c.emiss THEN bad
         ELSE [core |-> c, err |-> FALSE, value |-> c.emiss[date], utype |-> U_PGC_YR]
  ELSE IF msgstr = M_GETDATA /\ capstr \in DOMAIN OutputUnit
    THEN IF date = UndefinedIndex
           THEN [core |-> c, err |-> FALSE, value |-> CoreState(c),
                 utype |-> OutputUnit[capstr]]
         ELSE IF date \in DOMAIN c.vals /\ date <= c.currentDate
           THEN [core |-> c, err |-> FALSE, value |-> c.vals[date],
                 utype |-> OutputUnit[capstr]]
         ELSE bad
  ELSE bad

\* Core::createBiome, deleteBiome, renameBiome, getBiomeList
Core_createBiome(c, biome) ==
  IF biome \in c.biomes THEN [core |-> c, err |-> TRUE]
  ELSE [core |-> [c EXCEPT !.biomes = @ \cup {biome}], err |-> FALSE]
Core_deleteBiome(c, biome) ==
  IF biome \notin c.biomes THEN [core |-> c, err |-> TRUE]
  ELSE [core |-> [c EXCEPT !.biomes = @ \ {biome}], err |-> FALSE]
Core_renameBiome(c, oldname, newname) ==
  IF oldname \notin c.biomes \/ newname \in c.biomes THEN [core |-> c, err |-> TRUE]
  ELSE [core |-> [c EXCEPT !.biomes = (@ \ {oldname}) \cup {newname}], err |-> FALSE]
Core_getBiomeList(c) == c.biomes
Core_getTrackingData(c) == <<c.currentDate, CoreState(c)>>

\* ============================================================ the R wrapper
\* The result of one wrapper call: the registry and the handles after it,
\* whether it ended in Rcpp::stop (or an exception reaching R), the Core
\* operations it invoked, in order, and its return value.
Res(reg, env, err, calls, out) ==
  [reg |-> reg, env |-> env, err |-> err, calls |-> calls, out |-> out]

SetCore(reg, idx, c) == [reg EXCEPT ![idx + 1] = c]

\* gethcore: the core of a handle; stops when the registry has none.
gethcore(reg, e) ==
  LET hcore == getcore(reg, e.coreidx)
  IN [hcore |-> hcore, err |-> hcore = NULL]

\* chk_core_valid
chk_core_valid(reg, e) == getcore(reg, e.coreidx) # NULL

SetupCalls(n) == SubSeq(<< <<"init">>, <<"parse">>, <<"prepareToRun">> >>, 1, n)

\* newcore_impl that returns the handle without calling prepareToRun
newcore_impl_noPrepare(reg, env, fileExists, fail) ==
  IF ~fileExists THEN Res(reg, env, TRUE, <<>>, <<>>)
  ELSE
    LET mk == mkcore(reg)
        coreidx == mk.idx
        c1 == Core_init(getcore(mk.reg, coreidx))
        c2 == Core_parse(c1, IniFile)
        rv == [coreidx |-> coreidx,
               strtdate |-> Core_getStartDate(c2),
               enddate |-> Core_getEndDate(c2),
               clean |-> TRUE,
               reset_date |-> InitResetDate]
    IN IF fail = "init"
         THEN Res(SetCore(mk.reg, coreidx, c1), env, TRUE, SetupCalls(1), <<>>)
       ELSE IF fail = "parse"
         THEN Res(SetCore(mk.reg, coreidx, c2), env, TRUE, SetupCalls(2), <<>>)
       ELSE Res(SetCore(mk.reg, coreidx, c2), Append(env, rv), FALSE, SetupCalls(2),
                <<Len(env) + 1>>)

\* newcore_impl: fail names the step that throws ("none" when none does).
newcore_impl(reg, env, fileExists, fail) ==
  IF ~fileExists THEN Res(reg, env, TRUE, <<>>, <<>>)
  ELSE
    LET mk == mkcore(reg)
        coreidx == mk.idx
        c1 == Core_init(getcore(mk.reg, coreidx))
        c2 == Core_parse(c1, IniFile)
        c3 == Core_prepareToRun(c2)
        rv == [coreidx |-> coreidx,
               strtdate |-> Core_getStartDate(c3),
               enddate |-> Core_getEndDate(c3),
               clean |-> TRUE,
               reset_date |-> InitResetDate]
    IN IF fail = "init"
         THEN Res(SetCore(mk.reg, coreidx, c1), env, TRUE, SetupCalls(1), <<>>)
       ELSE IF fail = "parse"
         THEN Res(SetCore(mk.reg, coreidx, c2), env, TRUE, SetupCalls(2), <<>>)
       ELSE IF fail = "prepareToRun"
         THEN Res(SetCore(mk.reg, coreidx, c3), env, TRUE, SetupCalls(3), <<>>)
       ELSE Res(SetCore(mk.reg, coreidx, c3), Append(env, rv), FALSE, SetupCalls(3),
                <<Len(env) + 1>>)

\* shutdown that leaves the core in the registry
shutdown_keepsCore(reg, env, h) == Res(reg, env, FALSE, <<>>, <<h>>)

\* shutdown that deletes the first core whatever the handle
shutdown_first(reg, env, h) == Res(delcore(reg, 0), env, FALSE, <<>>, <<h>>)

\* shutdown
shutdown(reg, env, h) ==
  LET idx == env[h].coreidx
  IN Res(delcore(reg, idx), env, FALSE, <<>>, <<h>>)

\* reset that compares date < rd
reset_strictLess(reg, env, h, args, fail) ==
  LET date == IF args = <<>> THEN ResetDefaultDate ELSE args[1]
      g == gethcore(reg, env[h])
  IN IF g.err THEN Res(reg, env, TRUE, <<>>, <<>>)
     ELSE
       LET r == Core_reset(g.hcore, date, fail)
           reg1 == SetCore(reg, env[h].coreidx, r.core)
           calls == << <<"reset", date>> >>
           rd == env[h].reset_date
       IN IF r.err THEN Res(reg1, env, TRUE, calls, <<>>)
          ELSE Res(reg1,
                   IF date < rd THEN [env EXCEPT ![h].clean = TRUE] ELSE env,
                   FALSE, calls, <<h>>)

\* reset that hands the handle's reset_date to the core instead of date
reset_toResetDate(reg, env, h, args, fail) ==
  LET date == IF args = <<>> THEN ResetDefaultDate ELSE args[1]
      g == gethcore(reg, env[h])
  IN IF g.err THEN Res(reg, env, TRUE, <<>>, <<>>)
     ELSE
       LET rd == env[h].reset_date
           r == Core_reset(g.hcore, rd, fail)
           reg1 == SetCore(reg, env[h].coreidx, r.core)
           calls == << <<"reset", rd>> >>
       IN IF r.err THEN Res(reg1, env, TRUE, calls, <<>>)
          ELSE Res(reg1,
                   IF date <= rd THEN [env EXCEPT ![h].clean = TRUE] ELSE env,
                   FALSE, calls, <<h>>)

\* reset that also clears the inputs the core was given
reset_clearsInputs(reg, env, h, args, fail) ==
  LET date == IF args = <<>> THEN ResetDefaultDate ELSE args[1]
      g == gethcore(reg, env[h])
  IN IF g.err THEN Res(reg, env, TRUE, <<>>, <<>>)
     ELSE
       LET r == Core_reset(g.hcore, date, fail)
           cleared == [r.core EXCEPT !.emiss = [d \in DOMAIN @ |-> 0], !.other = {}]
           calls == << <<"reset", date>> >>
           rd == env[h].reset_date
       IN IF r.err THEN Res(SetCore(reg, env[h].coreidx, r.core), env, TRUE, calls, <<>>)
          ELSE Res(SetCore(reg, env[h].coreidx, cleared),
                   IF date <= rd THEN [env EXCEPT ![h].clean = TRUE] ELSE env,
                   FALSE, calls, <<h>>)

\* reset that marks the handle clean whatever the date
reset_marksClean(reg, env, h, args, fail) ==
  LET date == IF args = <<>> THEN ResetDefaultDate ELSE args[1]
      g == gethcore(reg, env[h])
  IN IF g.err THEN Res(reg, env, TRUE, <<>>, <<>>)
     ELSE
       LET r == Core_reset(g.hcore, date, fail)
           reg1 == SetCore(reg, env[h].coreidx, r.core)
           calls == << <<"reset", date>> >>
       IN IF r.err THEN Res(reg1, env, TRUE, calls, <<>>)
          ELSE Res(reg1, [env EXCEPT ![h].clean = TRUE], FALSE, calls, <<h>>)

\* reset that returns normally when the core's reset throws
reset_swallowsError(reg, env, h, args, fail) ==
  LET date == IF args = <<>> THEN ResetDefaultDate ELSE args[1]
      g == gethcore(reg, env[h])
  IN IF g.err THEN Res(reg, env, TRUE, <<>>, <<>>)
     ELSE
       LET r == Core_reset(g.hcore, date, fail)
           reg1 == SetCore(reg, env[h].coreidx, r.core)
           calls == << <<"reset", date>> >>
           rd == env[h].reset_date
       IN Res(reg1,
              IF date <= rd THEN [env EXCEPT ![h].clean = TRUE] ELSE env,
              FALSE, calls, <<h>>)

\* reset: args is <<>> for a call without a date, <<date>> otherwise.
reset(reg, env, h, args, fail) ==
  LET date == IF args = <<>> THEN ResetDefaultDate ELSE args[1]
      g == gethcore(reg, env[h])
  IN IF g.err THEN Res(reg, env, TRUE, <<>>, <<>>)
     ELSE
       LET r == Core_reset(g.hcore, date, fail)
           reg1 == SetCore(reg, env[h].coreidx, r.core)
           calls == << <<"reset", date>> >>
           rd == env[h].reset_date
       IN IF r.err THEN Res(reg1, env, TRUE, calls, <<>>)
          ELSE Res(reg1,
                   IF date <= rd THEN [env EXCEPT ![h].clean = TRUE] ELSE env,
                   FALSE, calls, <<h>>)

\* run without the check of the date against the current date
run_noDateCheck(reg, env, h, args, failReset, failRun) ==
  LET runtodate == IF args = <<>> THEN RunDefaultDate ELSE args[1]
      r0 == IF ~env[h].clean
              THEN reset(reg, env, h, <<env[h].reset_date>>, failReset)
              ELSE Res(reg, env, FALSE, <<>>, <<>>)
  IN IF r0.err THEN r0
     ELSE
       LET g == gethcore(r0.reg, r0.env[h]) IN
       IF g.err THEN Res(r0.reg, r0.env, TRUE, r0.calls, <<>>)
       ELSE
         LET r == Core_run(g.hcore, runtodate, failRun)
             reg1 == SetCore(r0.reg, env[h].coreidx, r.core)
             calls == Append(r0.calls, <<"run", runtodate>>)
         IN Res(reg1, r0.env, r.err, calls, IF r.err THEN <<>> ELSE <<h>>)

\* run that always runs the core to its default date
run_ignoresDate(reg, env, h, args, failReset, failRun) ==
  LET runtodate == IF args = <<>> THEN RunDefaultDate ELSE args[1]
      r0 == IF ~env[h].clean
              THEN reset(reg, env, h, <<env[h].reset_date>>, failReset)
              ELSE Res(reg, env, FALSE, <<>>, <<>>)
  IN IF r0.err THEN r0
     ELSE
       LET g == gethcore(r0.reg, r0.env[h]) IN
       IF g.err THEN Res(r0.reg, r0.env, TRUE, r0.calls, <<>>)
       ELSE IF runtodate > 0 /\ runtodate < Core_getCurrentDate(g.hcore)
         THEN Res(r0.reg, r0.env, TRUE, r0.calls, <<>>)
       ELSE
         LET r == Core_run(g.hcore, RunDefaultDate, failRun)
             reg1 == SetCore(r0.reg, env[h].coreidx, r.core)
             calls == Append(r0.calls, <<"run", RunDefaultDate>>)
         IN Res(reg1, r0.env, r.err, calls, IF r.err THEN <<>> ELSE <<h>>)

\* run: args is <<>> for a call without a date, <<runtodate>> otherwise.
run(reg, env, h, args, failReset, failRun) ==
  LET runtodate == IF args = <<>> THEN RunDefaultDate ELSE args[1]
      r0 == IF ~env[h].clean
              THEN reset(reg, env, h, <<env[h].reset_date>>, failReset)
              ELSE Res(reg, env, FALSE, <<>>, <<>>)
  IN IF r0.err THEN r0
     ELSE
       LET g == gethcore(r0.reg, r0.env[h]) IN
       IF g.err THEN Res(r0.reg, r0.env, TRUE, r0.calls, <<>>)
       ELSE IF runtodate > 0 /\ runtodate < Core_getCurrentDate(g.hcore)
         THEN Res(r0.reg, r0.env, TRUE, r0.calls, <<>>)
       ELSE
         LET r == Core_run(g.hcore, runtodate, failRun)
             reg1 == SetCore(r0.reg, env[h].coreidx, r.core)
             calls == Append(r0.calls, <<"run", runtodate>>)
         IN Res(reg1, r0.env, r.err, calls, IF r.err THEN <<>> ELSE <<h>>)

\* getdate
getdate(reg, env, h) ==
  LET g == gethcore(reg, env[h])
  IN IF g.err THEN Res(reg, env, TRUE, <<>>, <<>>)
     ELSE Res(reg, env, FALSE, << <<"getCurrentDate">> >>,
              <<Core_getCurrentDate(g.hcore)>>)

\* get_tracking_data_impl
get_tracking_data_impl(reg, env, h) ==
  LET g == gethcore(reg, env[h])
  IN IF g.err THEN Res(reg, env, TRUE, <<>>, <<>>)
     ELSE Res(reg, env, FALSE, << <<"getTrackingData">> >>,
              Core_getTrackingData(g.hcore))

\* get_biome_list
get_biome_list(reg, env, h) ==
  LET g == gethcore(reg, env[h])
  IN IF g.err THEN Res(reg, env, TRUE, <<>>, <<>>)
     ELSE Res(reg, env, FALSE, << <<"getBiomeList">> >>,
              <<Core_getBiomeList(g.hcore)>>)

\* create_biome_impl
create_biome_impl(reg, env, h, biome) ==
  LET g == gethcore(reg, env[h])
  IN IF g.err THEN Res(reg, env, TRUE, <<>>, <<>>)
     ELSE LET r == Core_createBiome(g.hcore, biome)
          IN Res(SetCore(reg, env[h].coreidx, r.core), env, r.err,
                 << <<"createBiome", biome>> >>, IF r.err THEN <<>> ELSE <<h>>)

\* delete_biome_impl
delete_biome_impl(reg, env, h, biome) ==
  LET g == gethcore(reg, env[h])
  IN IF g.err THEN Res(reg, env, TRUE, <<>>, <<>>)
     ELSE LET r == Core_deleteBiome(g.hcore, biome)
          IN Res(SetCore(reg, env[h].coreidx, r.core), env, r.err,
                 << <<"deleteBiome", biome>> >>, IF r.err THEN <<>> ELSE <<h>>)

\* rename_biome
rename_biome(reg, env, h, oldname, newname) ==
  LET g == gethcore(reg, env[h])
  IN IF g.err THEN Res(reg, env, TRUE, <<>>, <<>>)
     ELSE LET r == Core_renameBiome(g.hcore, oldname, newname)
          IN Res(SetCore(reg, env[h].coreidx, r.core), env, r.err,
                 << <<"renameBiome", oldname, newname>> >>,
                 IF r.err THEN <<>> ELSE <<h>>)

\* sendmessage, the loop over the date vector: one message per date, in
\* index order; the first failing message ends the loop.
RECURSIVE sendmessage_loop(_, _, _, _, _, _, _, _, _)
sendmessage_loop(c, msgstr, capstr, date, value, utype, i, calls, rows) ==
  IF i > Len(date)
    THEN [core |-> c, err |-> FALSE, calls |-> calls, rows |-> rows]
  ELSE
    LET ival == IF Len(value) = 1 THEN 1 ELSE i
        tempval == IF value[ival] = NA_REAL THEN 0 ELSE value[ival]
        tempdate == IF date[i] = NA_REAL THEN UndefinedIndex ELSE date[i]
        rtn == Core_sendMessage(c, msgstr, capstr, tempdate, tempval, utype)
        calls1 == Append(calls, <<"sendMessage", msgstr, capstr, tempdate, tempval, utype>>)
    IN IF rtn.err
         THEN [core |-> rtn.core, err |-> TRUE, calls |-> calls1, rows |-> rows]
       ELSE sendmessage_loop(rtn.core, msgstr, capstr, date, value, utype, i + 1,
                             calls1,
                             Append(rows, <<date[i], capstr, rtn.value,
                                            unitsName(rtn.utype)>>))

\* sendmessage that stops on a unit name it cannot parse, whatever the type
sendmessage_strictUnits(reg, env, h, msgtype, capability, date, value, unit) ==
  LET g == gethcore(reg, env[h]) IN
  IF g.err THEN Res(reg, env, TRUE, <<>>, <<>>)
  ELSE IF Len(value) # Len(date) /\ Len(value) # 1 THEN Res(reg, env, TRUE, <<>>, <<>>)
  ELSE
    LET p == parseUnitsName(unit) IN
    IF p.err THEN Res(reg, env, TRUE, <<>>, <<>>)
    ELSE
      LET r == sendmessage_loop(g.hcore, msgtype, capability, date, value, p.utype,
                                1, <<>>, <<>>)
      IN Res(SetCore(reg, env[h].coreidx, r.core), env, r.err, r.calls,
             IF r.err THEN <<>> ELSE r.rows)

\* sendmessage that returns the rows it has when the core refuses a message
sendmessage_ignoresCoreError(reg, env, h, msgtype, capability, date, value, unit) ==
  LET g == gethcore(reg, env[h]) IN
  IF g.err THEN Res(reg, env, TRUE, <<>>, <<>>)
  ELSE IF Len(value) # Len(date) /\ Len(value) # 1 THEN Res(reg, env, TRUE, <<>>, <<>>)
  ELSE
    LET p == parseUnitsName(unit) IN
    IF p.err /\ msgtype = M_SETDATA THEN Res(reg, env, TRUE, <<>>, <<>>)
    ELSE
      LET utype == IF p.err THEN U_UNDEFINED ELSE p.utype
          r == sendmessage_loop(g.hcore, msgtype, capability, date, value, utype,
                                1, <<>>, <<>>)
      IN Res(SetCore(reg, env[h].coreidx, r.core), env, FALSE, r.calls, r.rows)

\* sendmessage that undoes the messages it delivered when a later one fails
sendmessage_rollsBack(reg, env, h, msgtype, capability, date, value, unit) ==
  LET g == gethcore(reg, env[h]) IN
  IF g.err THEN Res(reg, env, TRUE, <<>>, <<>>)
  ELSE IF Len(value) # Len(date) /\ Len(value) # 1 THEN Res(reg, env, TRUE, <<>>, <<>>)
  ELSE
    LET p == parseUnitsName(unit) IN
    IF p.err /\ msgtype = M_SETDATA THEN Res(reg, env, TRUE, <<>>, <<>>)
    ELSE
      LET utype == IF p.err THEN U_UNDEFINED ELSE p.utype
          r == sendmessage_loop(g.hcore, msgtype, capability, date, value, utype,
                                1, <<>>, <<>>)
      IN IF r.err THEN Res(reg, env, TRUE, r.calls, <<>>)
         ELSE Res(SetCore(reg, env[h].coreidx, r.core), env, FALSE, r.calls, r.rows)

\* sendmessage
sendmessage(reg, env, h, msgtype, capability, date, value, unit) ==
  LET g == gethcore(reg, env[h]) IN
  IF g.err THEN Res(reg, env, TRUE, <<>>, <<>>)
  ELSE IF Len(value) # Len(date) /\ Len(value) # 1 THEN Res(reg, env, TRUE, <<>>, <<>>)
  ELSE
    LET p == parseUnitsName(unit) IN
    IF p.err /\ msgtype = M_SETDATA THEN Res(reg, env, TRUE, <<>>, <<>>)
    ELSE
      LET utype == IF p.err THEN U_UNDEFINED ELSE p.utype
          r == sendmessage_loop(g.hcore, msgtype, capability, date, value, utype,
                                1, <<>>, <<>>)
      IN Res(SetCore(reg, env[h].coreidx, r.core), env, r.err, r.calls,
             IF r.err THEN <<>> ELSE r.rows)

\* The host marks a reset as owed to an earlier date rd (the R side sets
\* clean and reset_date on the handle after changing an input of the past).
markdirty(reg, env, h, rd) ==
  Res(reg, [env EXCEPT ![h].clean = FALSE, ![h].reset_date = rd], FALSE, <<>>, <<h>>)

\* ============================================================ example driver
\* main-api.cpp: main() over a Core of its own and a stream of emissions.
MainStartDate == 2009      \* start date of the driver's configuration file
MainEndDate == 2019        \* end date of the driver's configuration file
MainIni == [start |-> MainStartDate, end |-> MainEndDate]
MainLateStart == 2012      \* start date of a configuration that begins later
MainIniLate == [start |-> MainLateStart, end |-> MainEndDate]
MainStep == 5              \* t += 5.0
EmissFrom == 2010          \* t > 2010.0
HeaderLines == 4           \* init_emiss_strm skips 4 lines
MainResetDate == 0         \* core.reset(0)

\* The columns of a line that read_and_set_co2 reads, after split and atof.
\* A line without a number in a column (a header line, the empty line of a
\* failed getline) gives 0 there.
Cols == {0, 1, 2, 3, 7, 11, 12, 14, 33}
EmptyLine == [c \in Cols |-> 0]
EmissionsLine(year, ffi) == [c \in Cols |-> IF c = 0 THEN year ELSE IF c = 1 THEN ffi ELSE 1]

\* The SETDATA messages of one line, in the order sent.
Messages(line) ==
  << <<D_FFI_EMISSIONS, line[1], U_PGC_YR>>,
     <<D_DACCS_UPTAKE, line[2], U_PGC_YR>>,
     <<D_LUC_EMISSIONS, line[3], U_PGC_YR>>,
     <<D_LUC_UPTAKE, line[3], U_PGC_YR>>,
     <<D_EMISSIONS_SO2, line[7], U_GG_S>>,
     <<D_EMISSIONS_BC, line[11], U_TG>>,
     <<D_EMISSIONS_OC, line[12], U_TG>>,
     <<D_EMISSIONS_CF4, line[14], U_GG>>,
     <<D_EMISSIONS_HFC22, line[33], U_GG>> >>

\* The sendMessage calls of one line; sent logs the messages delivered.
RECURSIVE SendLine(_, _, _, _, _)
SendLine(c, t, msgs, i, sent) ==
  IF i > Len(msgs) THEN [core |-> c, err |-> FALSE, sent |-> sent]
  ELSE LET m == msgs[i]
           r == Core_sendMessage(c, M_SETDATA, m[1], t, m[2], m[3])
       IN IF r.err THEN [core |-> r.core, err |-> TRUE, sent |-> sent]
          ELSE SendLine(r.core, t, msgs, i + 1, Append(sent, <<m[1], t>>))

\* read_and_set_co2 that tests the year against tend before it sends the line
RECURSIVE read_and_set_co2_testFirst(_, _, _, _, _, _)
read_and_set_co2_testFirst(tstrt, tend, c, stream, pos, sent) ==
  LET atEof == pos > Len(stream)
      line == IF atEof THEN EmptyLine ELSE stream[pos]
      t == line[0]
      r == IF t >= tstrt /\ t > EmissFrom /\ t < tend
             THEN SendLine(c, t, Messages(line), 1, sent)
             ELSE [core |-> c, err |-> FALSE, sent |-> sent]
      pos1 == IF atEof THEN pos ELSE pos + 1
      out(err, hang) == [core |-> r.core, pos |-> pos1, sent |-> r.sent,
                         err |-> err, hang |-> hang]
  IN IF r.err THEN out(TRUE, FALSE)
     ELSE IF t < tend
       THEN IF atEof THEN out(FALSE, TRUE)
            ELSE read_and_set_co2_testFirst(tstrt, tend, r.core, stream, pos1, r.sent)
     ELSE out(FALSE, FALSE)

\* read_and_set_co2: reads lines until one has a year >= tend, sending every
\* line read whose year is >= tstrt and > 2010.  At the end of the stream
\* getline fails, the year read is below tend for good and the loop never
\* ends (hang).
RECURSIVE read_and_set_co2(_, _, _, _, _, _)
read_and_set_co2(tstrt, tend, c, stream, pos, sent) ==
  LET atEof == pos > Len(stream)
      line == IF atEof THEN EmptyLine ELSE stream[pos]
      t == line[0]
      r == IF t >= tstrt /\ t > EmissFrom
             THEN SendLine(c, t, Messages(line), 1, sent)
             ELSE [core |-> c, err |-> FALSE, sent |-> sent]
      pos1 == IF atEof THEN pos ELSE pos + 1
      out(err, hang) == [core |-> r.core, pos |-> pos1, sent |-> r.sent,
                         err |-> err, hang |-> hang]
  IN IF r.err THEN out(TRUE, FALSE)
     ELSE IF t < tend
       THEN IF atEof THEN out(FALSE, TRUE)
            ELSE read_and_set_co2(tstrt, tend, r.core, stream, pos1, r.sent)
     ELSE out(FALSE, FALSE)

\* init_emiss_strm: the position after the header lines.
init_emiss_strm(pos) == pos + HeaderLines

\* core.sendMessage(M_GETDATA, capability): no date, no value.
GetData(c, capability) ==
  Core_sendMessage(c, M_GETDATA, capability, UndefinedIndex, 0, U_UNDEFINED)

\* The driver before main() runs, for a given emissions stream and
\* configuration file.
MainBegin(stream, ini) ==
  [pc |-> "start", core |-> NULL, stream |-> stream, ini |-> ini, pos |-> 1,
   tlast |-> 0, t |-> 0, newt |-> 0,
   tempts |-> <<>>, cats |-> <<>>, forcts |-> <<>>,
   diffs |-> <<>>, sent |-> <<>>]

\* main(), up to the first loop: the configuration file is checked, the core
\* is initialized, configured and prepared. An exception ends main() in its
\* catch block (pc "caught").
main_setup(m, fileOk) ==
  IF ~fileOk THEN [m EXCEPT !.pc = "caught"]
  ELSE LET core == Core_prepareToRun(Core_parse(Core_init(NewCore), m.ini))
       IN [m EXCEPT !.pc = "loop1", !.core = core,
                    !.tlast = Core_getStartDate(core),
                    !.pos = init_emiss_strm(m.pos),
                    !.t = Core_getStartDate(core) + MainStep]

\* One iteration of the first loop: emissions up to t, run to t, the three
\* results read and recorded.
main_loop1(m, fail) ==
  LET rs == read_and_set_co2(m.tlast, m.t, m.core, m.stream, m.pos, m.sent)
      m1 == [m EXCEPT !.core = rs.core, !.pos = rs.pos, !.sent = rs.sent]
  IN IF rs.hang THEN [m1 EXCEPT !.pc = "hang"]
     ELSE IF rs.err THEN [m1 EXCEPT !.pc = "caught"]
     ELSE
       LET rr == Core_run(rs.core, m.t, fail)
           temp == GetData(rr.core, D_GLOBAL_TAS)
           CO2_conc == GetData(rr.core, D_CO2_CONC)
           forc == GetData(rr.core, D_RF_TOTAL)
       IN IF rr.err \/ temp.err \/ CO2_conc.err \/ forc.err
            THEN [m1 EXCEPT !.pc = "caught", !.core = rr.core]
          ELSE [m1 EXCEPT !.core = rr.core,
                          !.tempts = (m.t :> temp.value) @@ @,
                          !.cats = (m.t :> CO2_conc.value) @@ @,
                          !.forcts = (m.t :> forc.value) @@ @,
                          !.tlast = m.t,
                          !.t = m.t + MainStep]

\* main() with the reset between the loops left out
main_reset_skipped(m) ==
  [m EXCEPT !.pc = "loop2", !.newt = Core_getStartDate(m.core) + MainStep]

\* Between the loops: reset to before the start date, spin-up rerun.
main_reset(m) ==
  LET r == Core_reset(m.core, MainResetDate, FALSE)
  IN [m EXCEPT !.pc = "loop2", !.core = r.core,
               !.newt = Core_getStartDate(r.core) + MainStep]

\* One iteration of the second loop: run to newt, the three results read and
\* their differences to the recorded ones logged.
main_loop2(m, fail) ==
  LET rr == Core_run(m.core, m.newt, fail)
      temp == GetData(rr.core, D_GLOBAL_TAS)
      CO2_conc == GetData(rr.core, D_CO2_CONC)
      forc == GetData(rr.core, D_RF_TOTAL)
  IN IF rr.err \/ temp.err \/ CO2_conc.err \/ forc.err
          \/ m.newt \notin DOMAIN m.tempts
       THEN [m EXCEPT !.pc = "caught", !.core = rr.core]
     ELSE [m EXCEPT !.core = rr.core,
                    !.diffs = Append(@, [t |-> m.newt,
                                         temp |-> temp.value - m.tempts[m.newt],
                                         ca |-> CO2_conc.value - m.cats[m.newt],
                                         forc |-> forc.value - m.forcts[m.newt]]),
                    !.newt = m.newt + MainStep]

\* core.shutDown() and the end of main().
main_shutdown(m) == [m EXCEPT !.pc = "done", !.core = NULL]

\* ============================================================ tracked pools
\* fluxpool (not in the sources at hand): a magnitude with a unit and, when
\* tracking is enabled, the fraction of it that each source contributed.
\* Fractions are exact: <<n, d>> is n/d in lowest terms.
RECURSIVE GCD(_, _)
GCD(a, b) == IF b = 0 THEN a ELSE GCD(b, a % b)
Norm(q) == LET g == GCD(q[1], q[2]) IN <<q[1] \div g, q[2] \div g>>
Zero == <<0, 1>>
One == <<1, 1>>
RatInt(n) == <<n, 1>>
RatAdd(p, q) == Norm(<<p[1] * q[2] + q[1] * p[2], p[2] * q[2]>>)
RatMul(p, q) == Norm(<<p[1] * q[1], p[2] * q[2]>>)
RatDiv(p, q) == Norm(<<p[1] * q[2], p[2] * q[1]>>)
RatLeq(p, q) == p[1] * q[2] <= q[1] * p[2]
RECURSIVE RatSum(_, _)
RatSum(S, f) ==
  IF S = {} THEN Zero
  ELSE LET x == CHOOSE y \in S : TRUE IN RatAdd(f[x], RatSum(S \ {x}, f))

\* A pool at its creation: with tracking, all of it attributed to itself.
fluxpool(name, value, tracking) ==
  [name |-> name, value |-> value, units |-> "Pg C", tracking |-> tracking,
   fractions |-> IF tracking THEN (name :> One) ELSE <<>>]

\* fluxpool::get_fraction: the fraction of a source, zero if absent.
get_fraction(x, source) ==
  IF source \in DOMAIN x.fractions THEN x.fractions[source] ELSE Zero

\* fluxpool::get_sources: the sources with a non-zero fraction.
get_sources(x) == {source \in DOMAIN x.fractions : x.fractions[source] # Zero}

\* fluxpool::enableTracking, disableTracking
enableTracking(x) ==
  IF x.tracking THEN x
  ELSE [x EXCEPT !.tracking = TRUE, !.fractions = (x.name :> One)]
disableTracking(x) == [x EXCEPT !.tracking = FALSE, !.fractions = <<>>]

\* add that keeps only the sources the pool already has
add_dropsNewSources(x, flow, attribution) ==
  LET oldMag == x.value
      newMag == x.value + flow
      mix(i) == RatDiv(RatAdd(RatMul(get_fraction(x, i), RatInt(oldMag)),
                              RatMul(IF i \in DOMAIN attribution
                                       THEN attribution[i] ELSE Zero,
                                     RatInt(flow))),
                       RatInt(newMag))
  IN IF ~x.tracking \/ newMag = 0 THEN [x EXCEPT !.value = newMag]
     ELSE [x EXCEPT !.value = newMag,
                    !.fractions = [i \in DOMAIN x.fractions |-> mix(i)]]

\* add that mixes the fractions without their weights
add_unweighted(x, flow, attribution) ==
  LET newMag == x.value + flow
      mix(i) == RatDiv(RatAdd(get_fraction(x, i),
                              IF i \in DOMAIN attribution
                                THEN attribution[i] ELSE Zero),
                       RatInt(2))
  IN IF ~x.tracking \/ newMag = 0 THEN [x EXCEPT !.value = newMag]
     ELSE [x EXCEPT !.value = newMag,
                    !.fractions =
                      [i \in DOMAIN x.fractions \cup DOMAIN attribution |-> mix(i)]]

\* fluxpool add: the magnitude grows by the flow; with tracking, the
\* fraction of every source in either map becomes
\* (oldFraction * oldMagnitude + incomingFraction * flow) / newMagnitude.
add(x, flow, attribution) ==
  LET oldMag == x.value
      newMag == x.value + flow
      mix(i) == RatDiv(RatAdd(RatMul(get_fraction(x, i), RatInt(oldMag)),
                              RatMul(IF i \in DOMAIN attribution
                                       THEN attribution[i] ELSE Zero,
                                     RatInt(flow))),
                       RatInt(newMag))
  IN IF ~x.tracking \/ newMag = 0 THEN [x EXCEPT !.value = newMag]
     ELSE [x EXCEPT !.value = newMag,
                    !.fractions =
                      [i \in DOMAIN x.fractions \cup DOMAIN attribution |-> mix(i)]]

\* fluxpool subtract: the magnitude shrinks, the mix left behind is the
\* same, and the flow taken out carries that mix; more than the pool holds
\* is refused (NegativePool).
subtract(x, flow) ==
  IF flow > x.value THEN [pool |-> x, attribution |-> <<>>, err |-> TRUE]
  ELSE [pool |-> [x EXCEPT !.value = @ - flow],
        attribution |-> x.fractions, err |-> FALSE]

\* A transfer of flow from one pool into another: subtract, then add.
Transfer(from, to, flow) ==
  LET out == subtract(from, flow)
  IN IF out.err THEN [from |-> from, to |-> to, err |-> TRUE]
     ELSE [from |-> out.pool, to |-> add(to, flow, out.attribution), err |-> FALSE]

\* ============================================================ flux-pool visitor
\* csv_fluxpool_visitor.cpp: CSVFluxPoolVisitor, over the visitor's fields
\* [datestring, run_name, core, csvFile]; core is a pointer, TheCore or NULL.
TheCore == "core"

\* boost::lexical_cast<string>(date)
lexical_cast(date) == ToString(date)

\* The visitor after construction without a header line.
CSVFluxPoolVisitor ==
  [datestring |-> "", run_name |-> "", core |-> NULL, csvFile |-> <<>>]

\* with every model period visited, spin-up included
shouldVisit_always(v, in_spinup, date) ==
  [v |-> [v EXCEPT !.datestring = lexical_cast(date)], ret |-> TRUE]

\* CSVFluxPoolVisitor::shouldVisit: notes the date, visits outside spin-up.
shouldVisit(v, in_spinup, date) ==
  [v |-> [v EXCEPT !.datestring = lexical_cast(date)], ret |-> ~in_spinup]

\* CSVFluxPoolVisitor::visit(Core*): c is the pointer, core the object.
visit_Core(v, c, core) == [v EXCEPT !.run_name = core.run_name, !.core = c]

\* print_pool without the test of the tracking flag
print_pool_untracked(v, x) ==
  [v EXCEPT !.csvFile =
     Append(@, [year |-> v.datestring, pool_name |-> x.name,
                pool_value |-> x.value, pool_units |-> x.units,
                sources |-> [source \in get_sources(x) |-> get_fraction(x, source)]])]

\* CSVFluxPoolVisitor::print_pool: one line for a tracked pool.
print_pool(v, x) ==
  IF x.tracking
    THEN [v EXCEPT !.csvFile =
            Append(@, [year |-> v.datestring, pool_name |-> x.name,
                       pool_value |-> x.value, pool_units |-> x.units,
                       sources |-> [source \in get_sources(x) |->
                                      get_fraction(x, source)]])]
  ELSE v

\* Core::outputEnabled (not in the sources at hand)
outputEnabled(core, componentName) == componentName \in core.enabled

\* CSVFluxPoolVisitor::visit(SimpleNbox*): heap maps the pointers to objects.
visit_SimpleNbox(v, c, heap) ==
  IF ~outputEnabled(heap[v.core], c.name) THEN v
  ELSE print_pool(print_pool(v, c.atmos_c), c.earth_c)

\* The carbon-cycle component at a date, with the values of its two pools.
SimpleNbox(date, trackDate, a, e) ==
  [name |-> "simpleNbox",
   atmos_c |-> fluxpool("atmos_c", a, date >= trackDate),
   earth_c |-> fluxpool("earth_c", e, date >= trackDate)]

\* The core's notification of its visitors after a step (not in the sources
\* at hand): shouldVisit, then for a visitor that wants the visit, the core
\* and then its components. w is the run: the core object, the component,
\* the visitor if one is registered, the logs of steps and of visits, and
\* the events of the run in the order they happen.
Event(ev, in_spinup, date, ret) ==
  [ev |-> ev, in_spinup |-> in_spinup, date |-> date, ret |-> ret]
NotifyVisitors(w, in_spinup, date) ==
  LET w1 == [w EXCEPT !.steps = Append(@, [in_spinup |-> in_spinup, date |-> date])]
  IN IF ~w.registered THEN w1
     ELSE LET sv == shouldVisit(w.visitor, in_spinup, date)
              v1 == visit_Core(sv.v, TheCore, w.core)
              v2 == visit_SimpleNbox(v1, w.nbox, (TheCore :> w.core))
              asked == Append(w.events, Event("shouldVisit", in_spinup, date, sv.ret))
          IN IF sv.ret
               THEN [w1 EXCEPT !.visitor = v2, !.visits = Append(@, Len(w1.steps)),
                               !.events = Append(asked,
                                                 Event("visit", in_spinup, date, TRUE))]
             ELSE [w1 EXCEPT !.visitor = sv.v, !.events = asked]

\* The components' step for a date (not in the sources at hand): the
\* carbon-cycle component gets the values a and e of its pools.
StepComponents(w, in_spinup, date, a, e) ==
  [w EXCEPT !.nbox = SimpleNbox(w.date, w.core.trackDate, a, e),
            !.events = Append(@, Event("step", in_spinup, date, TRUE))]

\* a step of the core that notifies the visitors before the components step
CoreStep_notifyFirst(w, in_spinup, date, a, e) ==
  StepComponents(NotifyVisitors(w, in_spinup, date), in_spinup, date, a, e)

\* One step of the core (not in the sources at hand): the components step,
\* then the visitors are notified.
CoreStep(w, in_spinup, date, a, e) ==
  NotifyVisitors(StepComponents(w, in_spinup, date, a, e), in_spinup, date)

\* ============================================================ state
VARIABLES
  registry,   \* Core::core_registry: the cores by index, NULL once deleted
  env,        \* the handles (R environments) returned by newcore_impl
  last,       \* the last wrapper call: operation, handle, the optional date
              \* argument of a reset or run, whether it ended in an error, and
              \* the names of the Core operations it invoked
  main,       \* the example driver: its position in main() and its locals
  vis,        \* a run of a core with the flux-pool visitor: the core, its
              \* carbon-cycle component, the visitor, the steps and visits
  pools       \* two pools of a component that moves carbon between them

vars == <<registry, env, last, main, vis, pools>>

\* No pools are in use.
PoolsOff == [on |-> FALSE]

\* No run with the visitor is under way.
VisOff == [phase |-> "off"]

\* The driver is not running.
MainOff == [pc |-> "off"]

Handles == 1..Len(env)

Bounded(reg) ==
  /\ Len(reg) <= MaxCores
  /\ \A i \in 1..Len(reg) : reg[i] # NULL => reg[i].spinups <= MaxSpinups

\* One wrapper call with result r becomes the new state.
Call(op, h, args, r) ==
  /\ Bounded(r.reg)
  /\ registry' = r.reg
  /\ env' = r.env
  /\ last' = [op |-> op, h |-> h, args |-> args, err |-> r.err,
              calls |-> [i \in DOMAIN r.calls |-> r.calls[i][1]]]
  /\ UNCHANGED <<main, vis, pools>>

Init ==
  /\ registry = <<>>
  /\ env = <<>>
  /\ last = [op |-> "none", h |-> 0, args |-> <<>>, err |-> FALSE, calls |-> <<>>]
  /\ main = MainOff
  /\ vis = VisOff
  /\ pools = PoolsOff

\* ------------------------------------------------------------ inputs
SetupFailures == {"none", "init", "parse", "prepareToRun"}
DateArgs == {<<>>} \cup {<<d>> : d \in Dates}
RunArgs == DateArgs \cup {<<RunDefaultDate>>}
RunFailures == {NoFail} \cup (StartDate..EndDate)
MsgTypes == {M_GETDATA, M_SETDATA}
Capabilities == {D_FFI_EMISSIONS, D_GLOBAL_TAS, "no_such_capability"}
UnitNames == {"Pg C/yr", "furlongs"}
\* date and value vectors of a sendmessage call
Vectors ==
  {<< <<StartDate + 1>>, <<1>> >>,
   << <<StartDate + 1, EndDate>>, <<1, 0>> >>,
   << <<NA_REAL>>, <<NA_REAL>> >>}

\* ------------------------------------------------------------ actions
\* Each action is one call from the host, its inputs drawn from the given
\* sets.
NewCoreImpl(maxHandles, Fails) ==
  /\ Len(env) < maxHandles
  /\ \E fileExists \in BOOLEAN, fail \in Fails :
       Call("newcore_impl", 0, <<>>,
            newcore_impl(registry, env, fileExists, fail))

Shutdown ==
  \E h \in Handles : Call("shutdown", h, <<>>, shutdown(registry, env, h))

Reset(Args, Fails) ==
  \E h \in Handles, args \in Args, fail \in Fails :
    Call("reset", h, args, reset(registry, env, h, args, fail))

Run(Args, ResetFails, RunFails) ==
  \E h \in Handles, args \in Args, failReset \in ResetFails, failRun \in RunFails :
    Call("run", h, args, run(registry, env, h, args, failReset, failRun))

GetDate ==
  \E h \in Handles : Call("getdate", h, <<>>, getdate(registry, env, h))

GetTrackingData ==
  \E h \in Handles :
    Call("get_tracking_data_impl", h, <<>>, get_tracking_data_impl(registry, env, h))

GetBiomeList ==
  \E h \in Handles : Call("get_biome_list", h, <<>>, get_biome_list(registry, env, h))

CreateBiome(Names) ==
  \E h \in Handles, b \in Names :
    Call("create_biome_impl", h, <<>>, create_biome_impl(registry, env, h, b))

DeleteBiome(Names) ==
  \E h \in Handles, b \in Names :
    Call("delete_biome_impl", h, <<>>, delete_biome_impl(registry, env, h, b))

RenameBiome(Names) ==
  \E h \in Handles, o \in Names, n \in Names :
    Call("rename_biome", h, <<>>, rename_biome(registry, env, h, o, n))

SendMessage(Types, Caps, Vecs, Units) ==
  \E h \in Handles, t \in Types, cap \in Caps, v \in Vecs, unit \in Units :
    Call("sendmessage", h, <<>>,
         sendmessage(registry, env, h, t, cap, v[1], v[2], unit))

\* A sendmessage call, its message type, capability and unit recorded.
SendMessageArgs(Types, Caps, Vecs, Units) ==
  \E h \in Handles, t \in Types, cap \in Caps, v \in Vecs, unit \in Units :
    Call("sendmessage", h, <<t, cap, unit>>,
         sendmessage(registry, env, h, t, cap, v[1], v[2], unit))

ChkCoreValid ==
  \E h \in Handles :
    Call("chk_core_valid", h, <<>>,
         Res(registry, env, FALSE, <<>>, <<chk_core_valid(registry, env[h])>>))

MarkDirty(ResetDates) ==
  \E h \in Handles, rd \in ResetDates :
    /\ chk_core_valid(registry, env[h])
    /\ rd < Core_getCurrentDate(getcore(registry, env[h].coreidx))
    /\ Call("markdirty", h, <<>>, markdirty(registry, env, h, rd))

\* One host holding one handle whose set-up succeeded.
Next ==
  \/ NewCoreImpl(1, {"none"})
  \/ Shutdown
  \/ Reset(DateArgs, BOOLEAN)
  \/ Run(RunArgs, BOOLEAN, RunFailures)
  \/ GetDate
  \/ GetTrackingData
  \/ GetBiomeList
  \/ CreateBiome(BiomeNames)
  \/ DeleteBiome(BiomeNames)
  \/ RenameBiome(BiomeNames)
  \/ SendMessage(MsgTypes, Capabilities, Vectors, UnitNames)
  \/ ChkCoreValid
  \/ MarkDirty(Dates)

Spec == Init /\ [][Next]_vars

\* One host holding two handles.
NextMulti ==
  \/ NewCoreImpl(2, {"none"})
  \/ Shutdown
  \/ Reset({<<StartDate>>}, {FALSE})
  \/ Run({<<>>, <<StartDate + 1>>}, {FALSE}, {NoFail})
  \/ CreateBiome({"boreal"})
  \/ SendMessage({M_SETDATA}, {D_FFI_EMISSIONS}, {<< <<StartDate + 1>>, <<1>> >>},
                 {"Pg C/yr"})
  \/ MarkDirty({StartDate})

SpecMulti == Init /\ [][NextMulti]_vars

\* One host whose newcore_impl calls can fail at every step of the set-up.
NextSetup ==
  \/ NewCoreImpl(1, SetupFailures)
  \/ Shutdown
  \/ Reset({<<>>, <<StartDate>>}, BOOLEAN)
  \/ Run({<<>>, <<StartDate + 1>>}, {FALSE}, RunFailures)
  \/ SendMessage(MsgTypes, {D_FFI_EMISSIONS}, {<< <<StartDate + 1>>, <<1>> >>},
                 UnitNames)
  \/ ChkCoreValid

SpecSetup == Init /\ [][NextSetup]_vars

\* One host whose calls can fail at every step: a failing set-up, a failing
\* reset or run of the core, a reset owed, and messages the core refuses.
NextCalls ==
  \/ NewCoreImpl(1, {"none", "parse"})
  \/ Reset(DateArgs, BOOLEAN)
  \/ Run({<<>>, <<StartDate + 1>>}, BOOLEAN, {NoFail, StartDate + 1})
  \/ SendMessageArgs(MsgTypes, Capabilities,
                     {<< <<StartDate + 1, EndDate>>, <<1, 0>> >>}, UnitNames)
  \/ MarkDirty(Dates)

SpecCalls == Init /\ [][NextCalls]_vars

\* One host that sends vectors of messages, some with a date the core
\* refuses after dates it accepts, and runs and resets its core in between.
NextMessages ==
  \/ NewCoreImpl(1, {"none"})
  \/ Reset({<<>>}, {FALSE})
  \/ Run({<<>>, <<StartDate + 1>>}, {FALSE}, {NoFail})
  \/ SendMessageArgs(MsgTypes, {D_FFI_EMISSIONS, D_GLOBAL_TAS},
                     {<< <<StartDate + 1, EndDate>>, <<1, 0>> >>,
                      << <<EndDate, NA_REAL>>, <<1>> >>,
                      << <<NA_REAL, StartDate + 1>>, <<0, 1>> >>},
                     {unitsName(U_PGC_YR)})

SpecMessages == Init /\ [][NextMessages]_vars

\* ------------------------------------------------------------ the driver
\* The emissions streams: the header lines, then one line per year from the
\* start date to the end date.
RECURSIVE LinesFrom(_, _)
LinesFrom(year, ffi) ==
  IF year > MainEndDate THEN <<>>
  ELSE <<EmissionsLine(year, ffi[year])>> \o LinesFrom(year + 1, ffi)
StreamVals == {0, 1}
Streams ==
  {[i \in 1..HeaderLines |-> EmptyLine] \o LinesFrom(MainStartDate, ffi) :
     ffi \in [MainStartDate..MainEndDate -> StreamVals]}

InitMain ==
  /\ registry = <<>>
  /\ env = <<>>
  /\ last = [op |-> "none", h |-> 0, args |-> <<>>, err |-> FALSE, calls |-> <<>>]
  /\ \E stream \in Streams, ini \in {MainIni, MainIniLate} :
       main = MainBegin(stream, ini)
  /\ vis = VisOff
  /\ pools = PoolsOff

MainSetup ==
  /\ main.pc = "start"
  /\ \E fileOk \in BOOLEAN : main' = main_setup(main, fileOk)
  /\ UNCHANGED <<registry, env, last, vis, pools>>

MainLoop1 ==
  /\ main.pc = "loop1" /\ main.t <= Core_getEndDate(main.core)
  /\ \E fail \in {NoFail, main.t} : main' = main_loop1(main, fail)
  /\ UNCHANGED <<registry, env, last, vis, pools>>

MainReset ==
  /\ main.pc = "loop1" /\ main.t > Core_getEndDate(main.core)
  /\ main' = main_reset(main)
  /\ UNCHANGED <<registry, env, last, vis, pools>>

MainLoop2 ==
  /\ main.pc = "loop2" /\ main.newt <= Core_getEndDate(main.core)
  /\ \E fail \in {NoFail, main.newt} : main' = main_loop2(main, fail)
  /\ UNCHANGED <<registry, env, last, vis, pools>>

MainShutDown ==
  /\ main.pc = "loop2" /\ main.newt > Core_getEndDate(main.core)
  /\ main' = main_shutdown(main)
  /\ UNCHANGED <<registry, env, last, vis, pools>>

NextMain ==
  \/ MainSetup
  \/ MainLoop1
  \/ MainReset
  \/ MainLoop2
  \/ MainShutDown

SpecMain == InitMain /\ [][NextMain]_vars

\* ------------------------------------------------------------ the visitor
\* A core configured with a tracking date and with the component's output
\* enabled or not; no visitor registered yet.
InitVisit ==
  /\ registry = <<>>
  /\ env = <<>>
  /\ last = [op |-> "none", h |-> 0, args |-> <<>>, err |-> FALSE, calls |-> <<>>]
  /\ main = MainOff
  /\ pools = PoolsOff
  /\ \E trackDate \in StartDate..(EndDate + 1), enabled \in SUBSET {"simpleNbox"},
        spinSteps \in 0..MaxSpinSteps :
       vis = [phase |-> "init", date |-> StartDate, spinStep |-> 0,
              spinSteps |-> spinSteps,
              core |-> [run_name |-> "run", enabled |-> enabled,
                        trackDate |-> trackDate],
              nbox |-> SimpleNbox(StartDate, trackDate, 0, 0),
              registered |-> FALSE, visitor |-> CSVFluxPoolVisitor,
              steps |-> <<>>, visits |-> <<>>, events |-> <<>>]

\* Core::addVisitor before the run
AddVisitor ==
  /\ vis.phase = "init" /\ ~vis.registered
  /\ vis' = [vis EXCEPT !.registered = TRUE]
  /\ UNCHANGED <<registry, env, last, main, pools>>

\* Core::run begins with spin-up.
VisitRunBegin ==
  /\ vis.phase = "init"
  /\ vis' = [vis EXCEPT !.phase = "spinup"]
  /\ UNCHANGED <<registry, env, last, main, pools>>

\* One spin-up step: the components step, the visitors are notified with
\* in_spinup true and the number of the step.
VisitSpinupStep ==
  /\ vis.phase = "spinup" /\ vis.spinStep < vis.spinSteps
  /\ \E a \in Val, e \in Val :
       vis' = CoreStep([vis EXCEPT !.spinStep = @ + 1],
                       TRUE, vis.spinStep + 1, a, e)
  /\ UNCHANGED <<registry, env, last, main, pools>>

\* Spin-up has converged.
VisitSpinupEnd ==
  /\ vis.phase = "spinup" /\ vis.spinStep = vis.spinSteps
  /\ vis' = [vis EXCEPT !.phase = "run"]
  /\ UNCHANGED <<registry, env, last, main, pools>>

\* One step of the run: the date advances, the components step, the visitors
\* are notified.
VisitRunStep ==
  /\ vis.phase = "run" /\ vis.date < EndDate
  /\ \E a \in Val, e \in Val :
       vis' = CoreStep([vis EXCEPT !.date = @ + 1],
                       FALSE, vis.date + 1, a, e)
  /\ UNCHANGED <<registry, env, last, main, pools>>

\* The run has reached the end date.
VisitRunEnd ==
  /\ vis.phase = "run" /\ vis.date = EndDate
  /\ vis' = [vis EXCEPT !.phase = "done"]
  /\ UNCHANGED <<registry, env, last, main, pools>>

NextVisit ==
  \/ AddVisitor
  \/ VisitRunBegin
  \/ VisitSpinupStep
  \/ VisitSpinupEnd
  \/ VisitRunStep
  \/ VisitRunEnd

SpecVisit == InitVisit /\ [][NextVisit]_vars

\* ------------------------------------------------------------ the pools
\* Two pools A and B of a component, created with some magnitude, both
\* tracked or both not (tracking starts for all pools at the tracking date).
InitPools ==
  /\ registry = <<>>
  /\ env = <<>>
  /\ last = [op |-> "none", h |-> 0, args |-> <<>>, err |-> FALSE, calls |-> <<>>]
  /\ main = MainOff
  /\ vis = VisOff
  /\ \E a \in 0..MaxMagnitude, b \in 0..MaxMagnitude, tracking \in BOOLEAN :
       pools = [on |-> TRUE, A |-> fluxpool("A", a, tracking),
                B |-> fluxpool("B", b, tracking), ops |-> 0, op |-> "none",
                err |-> FALSE]

\* The component moves flow from A into B.
TransferAB ==
  /\ pools.on /\ pools.ops < MaxPoolOps
  /\ \E flow \in 0..(pools.A.value + 1) :
       LET t == Transfer(pools.A, pools.B, flow)
       IN pools' = [pools EXCEPT !.A = t.from, !.B = t.to, !.ops = @ + 1,
                                 !.op = "AB", !.err = t.err]
  /\ UNCHANGED <<registry, env, last, main, vis>>

\* The component moves flow from B into A.
TransferBA ==
  /\ pools.on /\ pools.ops < MaxPoolOps
  /\ \E flow \in 0..(pools.B.value + 1) :
       LET t == Transfer(pools.B, pools.A, flow)
       IN pools' = [pools EXCEPT !.B = t.from, !.A = t.to, !.ops = @ + 1,
                                 !.op = "BA", !.err = t.err]
  /\ UNCHANGED <<registry, env, last, main, vis>>

\* The tracking date is reached: tracking starts for both pools.
StartTracking ==
  /\ pools.on /\ pools.ops < MaxPoolOps /\ ~pools.A.tracking
  /\ pools' = [pools EXCEPT !.A = enableTracking(@), !.B = enableTracking(@),
                            !.ops = @ + 1, !.op = "start", !.err = FALSE]
  /\ UNCHANGED <<registry, env, last, main, vis>>

\* Tracking is switched off for both pools.
StopTracking ==
  /\ pools.on /\ pools.ops < MaxPoolOps /\ pools.A.tracking
  /\ pools' = [pools EXCEPT !.A = disableTracking(@), !.B = disableTracking(@),
                            !.ops = @ + 1, !.op = "stop", !.err = FALSE]
  /\ UNCHANGED <<registry, env, last, main, vis>>

NextPools ==
  \/ TransferAB
  \/ TransferBA
  \/ StartTracking
  \/ StopTracking

SpecPools == InitPools /\ [][NextPools]_vars

\* ============================================================ properties
Valid(h) == chk_core_valid(registry, env[h])
CoreOf(h) == getcore(registry, env[h].coreidx)
CoreAfter(r, h) == getcore(r.reg, env[h].coreidx)
CallNames(r) == {r.calls[i][1] : i \in DOMAIN r.calls}

\* P holds of the result of every reset, run, getdate, get_tracking_data_impl,
\* get_biome_list, create_biome_impl, delete_biome_impl, rename_biome and
\* sendmessage call on handle h in the current state.
ForAllCalls(h, P(_)) ==
  /\ \A args \in DateArgs, fail \in BOOLEAN : P(reset(registry, env, h, args, fail))
  /\ \A args \in RunArgs, fr \in BOOLEAN, fu \in RunFailures :
       P(run(registry, env, h, args, fr, fu))
  /\ P(getdate(registry, env, h))
  /\ P(get_tracking_data_impl(registry, env, h))
  /\ P(get_biome_list(registry, env, h))
  /\ \A b \in BiomeNames :
       /\ P(create_biome_impl(registry, env, h, b))
       /\ P(delete_biome_impl(registry, env, h, b))
       /\ \A n \in BiomeNames : P(rename_biome(registry, env, h, b, n))
  /\ \A t \in MsgTypes, cap \in Capabilities, v \in Vectors, unit \in UnitNames :
       P(sendmessage(registry, env, h, t, cap, v[1], v[2], unit))

FailsUntouched(r) ==
  r.err /\ r.calls = <<>> /\ r.reg = registry /\ r.env = env

\* C1: once shutdown has been called on a handle, chk_core_valid is false for
\* it in every later state, and every reset, run, getdate,
\* get_tracking_data_impl, get_biome_list, create_biome_impl,
\* delete_biome_impl, rename_biome and sendmessage on it ends in an error
\* without invoking any operation of the core; a handle returned by
\* newcore_impl is valid until shutdown is called on it.
C1_ShutdownInvalidates ==
  /\ [](/\ last.op = "shutdown" => ~Valid(last.h)
        /\ (last.op = "newcore_impl" /\ ~last.err) => Valid(Len(env))
        /\ \A h \in Handles : ~Valid(h) => ForAllCalls(h, FailsUntouched))
  /\ [][\A h \in Handles :
          /\ ~Valid(h) => ~chk_core_valid(registry', env'[h])
          /\ (Valid(h) /\ ~chk_core_valid(registry', env'[h]))
               => (last'.op = "shutdown" /\ last'.h = h)]_vars

\* A run on a dirty handle that was shut down has failed before reaching the
\* core.
C1_Witness ==
  /\ last.op = "run" /\ last.err /\ last.calls = <<>>
  /\ ~Valid(last.h) /\ ~env[last.h].clean

\* C2: the current date of an instance decreases only in a call that resets
\* the core (reset, or the reset run performs on a dirty handle), so it is
\* non-decreasing over run calls on a clean handle; and run(core, d) on a clean
\* handle with 0 < d < current date ends in an error, does not call the core's
\* run, and leaves the core and the handle (clean, reset_date) unchanged.
C2_DateNeverRegresses ==
  /\ [](\A h \in Handles : (Valid(h) /\ env[h].clean) =>
          \A d \in Dates, fr \in BOOLEAN, fu \in RunFailures :
            (0 < d /\ d < CoreOf(h).currentDate) =>
              FailsUntouched(run(registry, env, h, <<d>>, fr, fu)))
  /\ [][\A h \in Handles :
          (Valid(h) /\ chk_core_valid(registry', env'[h])
             /\ getcore(registry', env'[h].coreidx).currentDate < CoreOf(h).currentDate)
            => (last'.h = h /\ "reset" \in {last'.calls[i] : i \in DOMAIN last'.calls})]_vars

\* A run to an earlier date on a clean handle has been refused.
C2_Witness ==
  /\ last.op = "run" /\ last.err /\ last.calls = <<>> /\ last.args # <<>>
  /\ Valid(last.h) /\ env[last.h].clean
  /\ 0 < last.args[1] /\ last.args[1] < CoreOf(last.h).currentDate

\* C3: a run entered with clean = FALSE that reaches the core's run has first
\* reset the core to the handle's reset_date, and nothing else; and whenever a
\* run call returns successfully the handle's clean flag is TRUE.
C3_NoRunWhileDirty ==
  \A h \in Handles : Valid(h) =>
    \A args \in RunArgs, fr \in BOOLEAN, fu \in RunFailures :
      LET r == run(registry, env, h, args, fr, fu) IN
      /\ (~env[h].clean /\ "run" \in CallNames(r)) =>
           /\ Len(r.calls) = 2
           /\ r.calls[1] = <<"reset", env[h].reset_date>>
           /\ r.calls[2][1] = "run"
      /\ (env[h].clean /\ "run" \in CallNames(r)) => Len(r.calls) = 1
      /\ ~r.err => r.env[h].clean

\* A run on a dirty handle has reset the core, run it and returned.
C3_Witness ==
  /\ last.op = "run" /\ ~last.err /\ last.calls = <<"reset", "run">>
  /\ env[last.h].clean

\* C4: reset(date) with date before the start date executes spin-up once more
\* and leaves the core at the start date in its post-spin-up state; reset to
\* the start date leaves it there too, without executing spin-up.
C4_ResetToStart ==
  \A h \in Handles : Valid(h) =>
    \A d \in Dates :
      LET r == reset(registry, env, h, <<d>>, FALSE)
          c == CoreAfter(r, h)
      IN /\ d < StartDate =>
              /\ ~r.err
              /\ c.currentDate = StartDate /\ CoreState(c) = SpinupVal
              /\ c.spinups = CoreOf(h).spinups + 1
              /\ r.calls = << <<"reset", d>> >>
         /\ d = StartDate =>
              /\ ~r.err
              /\ c.currentDate = StartDate /\ CoreState(c) = SpinupVal
              /\ c.spinups = CoreOf(h).spinups
              /\ r.calls = << <<"reset", d>> >>

\* A reset to the start date after a run: the core is back at the start date
\* and spin-up has run once.
C4_Witness ==
  /\ last.op = "reset" /\ ~last.err /\ last.args = <<StartDate>>
  /\ CoreOf(last.h).currentDate = StartDate /\ CoreOf(last.h).spinups = 1

\* C5 as claimed: a reset without a date has the effect of reset(startDate).
C5_DefaultIsStartDate ==
  \A h \in Handles : Valid(h) =>
    LET r0 == reset(registry, env, h, <<>>, FALSE)
        rs == reset(registry, env, h, <<StartDate>>, FALSE)
    IN r0.reg = rs.reg /\ r0.env = rs.env /\ r0.err = rs.err

\* C5 amended: a reset without a date resets to date 0, before the start
\* date: like reset(startDate) it leaves the core at the start date in its
\* post-spin-up state, but it executes spin-up once more, which
\* reset(startDate) does not, and it sets the handle clean.
C5_DefaultRerunsSpinup ==
  \A h \in Handles : Valid(h) =>
    LET r0 == reset(registry, env, h, <<>>, FALSE)
        rs == reset(registry, env, h, <<StartDate>>, FALSE)
        c0 == CoreAfter(r0, h)
        cs == CoreAfter(rs, h)
    IN /\ ~r0.err /\ ~rs.err
       /\ c0.currentDate = StartDate /\ cs.currentDate = StartDate
       /\ CoreState(c0) = CoreState(cs)
       /\ c0.spinups = CoreOf(h).spinups + 1
       /\ cs.spinups = CoreOf(h).spinups
       /\ r0.env[h].clean
       /\ rs.env[h].clean = (env[h].clean \/ StartDate <= env[h].reset_date)

\* A reset without a date has acted after a run: spin-up has run twice.
C5_Witness ==
  /\ last.op = "reset" /\ ~last.err /\ last.args = <<>>
  /\ CoreOf(last.h).currentDate = StartDate /\ CoreOf(last.h).spinups = 2

\* C7: a run that returns successfully with a date > 0 leaves the current date
\* at that date; with no date or a non-positive date it leaves it at the end
\* date, and on a clean handle such a run is never refused for its date.
C7_RunReachesDate ==
  \A h \in Handles : Valid(h) =>
    \A args \in RunArgs, fr \in BOOLEAN, fu \in RunFailures :
      LET r == run(registry, env, h, args, fr, fu)
          positive == args # <<>> /\ args[1] > 0
      IN /\ (~r.err /\ positive) => CoreAfter(r, h).currentDate = args[1]
         /\ (~r.err /\ ~positive) => CoreAfter(r, h).currentDate = EndDate
         /\ (positive /\ args[1] >= CoreOf(h).currentDate /\ env[h].clean
               /\ fu = NoFail) => ~r.err
         /\ (~positive /\ env[h].clean /\ fu = NoFail) => ~r.err

\* A run to a date between the start and the end date has acted.
C7_Witness ==
  /\ last.op = "run" /\ ~last.err /\ last.args # <<>>
  /\ StartDate < last.args[1] /\ last.args[1] < EndDate
  /\ CoreOf(last.h).currentDate = last.args[1]

\* C9: the core of every handle has had init, the configuration parse and
\* prepareToRun executed exactly once each, in that order, and no reset, run
\* or other call on a handle invokes any of them again.
SetupNames == {"init", "parse", "prepareToRun"}
NoSetupCall(r) == CallNames(r) \cap SetupNames = {}
C9_SetupOnce ==
  /\ \A h \in Handles : Valid(h) =>
       /\ CoreOf(h).setup = <<"init", "parse", "prepareToRun">>
       /\ ForAllCalls(h, NoSetupCall)
  /\ (last.op = "newcore_impl" /\ ~last.err) =>
       last.calls = <<"init", "parse", "prepareToRun">>

\* A message has reached a core that was set up by newcore_impl.
C9_Witness ==
  /\ last.op = "sendmessage" /\ ~last.err /\ last.calls # <<>>
  /\ CoreOf(last.h).setup = <<"init", "parse", "prepareToRun">>

\* C8: with two handles from two newcore_impl calls, no call on one handle
\* (reset, run, getdate, get_tracking_data_impl, get_biome_list, the biome
\* changes, sendmessage, shutdown, the host's marking it dirty) and no further
\* newcore_impl changes the other handle's fields or its core (validity,
\* current date, component state, inputs, biomes).
SameFor(o, r) ==
  /\ r.env[o] = env[o]
  /\ getcore(r.reg, env[o].coreidx) = getcore(registry, env[o].coreidx)
C8_Isolated ==
  \A o \in Handles :
    /\ \A h \in Handles \ {o} :
         /\ ForAllCalls(h, LAMBDA r : SameFor(o, r))
         /\ SameFor(o, shutdown(registry, env, h))
         /\ \A rd \in Dates : SameFor(o, markdirty(registry, env, h, rd))
    /\ \A fileExists \in BOOLEAN, fail \in SetupFailures :
         SameFor(o, newcore_impl(registry, env, fileExists, fail))

\* One of two handles has been shut down; the other is valid, has been run
\* and has a changed input.
C8_Witness ==
  /\ Len(env) = 2 /\ last.op = "shutdown" /\ last.h = 1
  /\ ~Valid(1) /\ Valid(2)
  /\ CoreOf(2).currentDate > StartDate /\ CoreOf(2).emiss[StartDate + 1] = 1

\* The results of running a core through the driver's dates, from date t on.
RECURSIVE Rerun(_, _)
Rerun(c, t) ==
  IF t > Core_getEndDate(c) THEN <<>>
  ELSE LET rr == Core_run(c, t, NoFail)
       IN <<[t |-> t,
             temp |-> GetData(rr.core, D_GLOBAL_TAS).value,
             ca |-> GetData(rr.core, D_CO2_CONC).value,
             forc |-> GetData(rr.core, D_RF_TOTAL).value]>>
          \o Rerun(rr.core, t + MainStep)

\* The first loop of the driver has run the core to the end date.
FirstRunDone == main.pc = "loop1" /\ main.t > Core_getEndDate(main.core)

C10_VisitsOutsideSpinup ==
  /\ vis.phase # "off" =>
       \A in_spinup \in BOOLEAN, date \in 0..(EndDate + 1) :
         shouldVisit(vis.visitor, in_spinup, date).ret = ~in_spinup
  /\ (vis.phase # "off" /\ vis.registered) =>
       /\ {vis.visits[i] : i \in DOMAIN vis.visits}
            = {k \in DOMAIN vis.steps : ~vis.steps[k].in_spinup}
       /\ \A i, j \in DOMAIN vis.visits : vis.visits[i] = vis.visits[j] => i = j

\* A run with a registered visitor has finished after spin-up steps and
\* steps of the run, the visitor has been visited, and the last date it
\* noted is the end date.
C10_Witness ==
  /\ vis.phase = "done" /\ vis.registered
  /\ \E k \in DOMAIN vis.steps : vis.steps[k].in_spinup
  /\ Len(vis.visits) = EndDate - StartDate
  /\ vis.visitor.datestring = lexical_cast(EndDate)
  /\ vis.visitor.csvFile # <<>>

\* C11: a visit happens only right after the visitor's shouldVisit for the
\* same date returned true, only after the components' step for that date,
\* and before any step for a later date; the date the visitor writes and
\* the core it reads are the ones of that shouldVisit and that visit.
C11_VisitAfterStep ==
  vis.phase # "off" =>
    /\ \A k \in DOMAIN vis.events :
         vis.events[k].ev = "visit" =>
           /\ k > 1
           /\ vis.events[k - 1] =
                Event("shouldVisit", vis.events[k].in_spinup, vis.events[k].date, TRUE)
           /\ \E i \in 1..(k - 1) :
                vis.events[i] =
                  Event("step", vis.events[k].in_spinup, vis.events[k].date, TRUE)
           /\ \A i \in 1..(k - 1) :
                (vis.events[i].ev = "step" /\ ~vis.events[i].in_spinup)
                  => vis.events[i].date <= vis.events[k].date
    /\ \A k \in DOMAIN vis.events :
         (vis.events[k].ev = "shouldVisit" /\ ~vis.events[k].ret)
           => (k = Len(vis.events) \/ vis.events[k + 1].ev # "visit")
    /\ vis.visits # <<>> =>
         /\ vis.visitor.core = TheCore
         /\ vis.visitor.run_name = vis.core.run_name
         /\ vis.visitor.datestring = lexical_cast(vis.events[Len(vis.events)].date)
    /\ \A i \in DOMAIN vis.visitor.csvFile :
         \E k \in DOMAIN vis.events :
           /\ vis.events[k].ev = "visit"
           /\ vis.visitor.csvFile[i].year = lexical_cast(vis.events[k].date)

\* A run with spin-up steps has ended: shouldVisit was refused in spin-up, and
\* the visitor was visited at two dates after the steps of those dates.
C11_Witness ==
  /\ vis.phase = "done" /\ vis.registered
  /\ \E k \in DOMAIN vis.events :
       vis.events[k].ev = "shouldVisit" /\ ~vis.events[k].ret
  /\ \E j, k \in DOMAIN vis.events :
       /\ j < k
       /\ vis.events[j] = Event("visit", FALSE, StartDate + 1, TRUE)
       /\ vis.events[k] = Event("visit", FALSE, EndDate, TRUE)

\* The record of the tracking report for pool x at the date the visitor noted.
PoolRecord(v, x) ==
  [year |-> v.datestring, pool_name |-> x.name, pool_value |-> x.value,
   pool_units |-> x.units,
   sources |-> [source \in get_sources(x) |-> get_fraction(x, source)]]

\* The records of a component's tracked pools, atmos_c before earth_c.
TrackedRecords(v, c) ==
  (IF c.atmos_c.tracking THEN <<PoolRecord(v, c.atmos_c)>> ELSE <<>>)
    \o (IF c.earth_c.tracking THEN <<PoolRecord(v, c.earth_c)>> ELSE <<>>)

\* Components whose pools are tracked or not independently of each other.
AnyNbox ==
  {[name |-> "simpleNbox",
    atmos_c |-> fluxpool("atmos_c", a, ta),
    earth_c |-> fluxpool("earth_c", e, te)] :
     a \in Val, e \in Val, ta \in BOOLEAN, te \in BOOLEAN}

\* print_pool and visit(SimpleNbox*) on the visitor as it is, for every pool
\* and component.
C12_PrintPool ==
  vis.phase # "off" =>
    /\ \A c \in AnyNbox : \A x \in {c.atmos_c, c.earth_c} :
         print_pool(vis.visitor, x) =
           IF x.tracking
             THEN [vis.visitor EXCEPT !.csvFile = Append(@, PoolRecord(vis.visitor, x))]
           ELSE vis.visitor
    /\ \A c \in AnyNbox, enabled \in SUBSET {"simpleNbox"} :
         LET core == [vis.core EXCEPT !.enabled = enabled]
             v1 == visit_Core(vis.visitor, TheCore, core)
         IN visit_SimpleNbox(v1, c, (TheCore :> core)) =
              [v1 EXCEPT !.csvFile =
                 @ \o (IF c.name \in enabled THEN TrackedRecords(v1, c) ELSE <<>>)]
    /\ \A i \in DOMAIN vis.visitor.csvFile :
         \E d \in StartDate..EndDate :
           /\ d >= vis.core.trackDate
           /\ vis.visitor.csvFile[i].year = lexical_cast(d)

\* A step of the run adds to the report exactly the records of the tracked
\* pools of an output-enabled component, and only when the step is visited.
C12_StepRecords ==
  (vis.phase # "off" /\ vis'.phase # "off" /\ vis.registered) =>
    vis'.visitor.csvFile =
      vis.visitor.csvFile
        \o (IF Len(vis'.visits) > Len(vis.visits)
               /\ vis'.nbox.name \in vis'.core.enabled
              THEN TrackedRecords(vis'.visitor, vis'.nbox)
            ELSE <<>>)

\* C12: the tracking report has a record for a pool at a date only if the
\* pool's tracking flag is set at that date: print_pool writes nothing for a
\* pool that is not tracked, and a visited step of an output-enabled
\* component writes exactly one record per tracked pool, atmos_c before
\* earth_c; a step that is not visited, or of a component whose output is
\* not enabled, writes nothing.
C12_RecordsOnlyWhenTracked == []C12_PrintPool /\ [][C12_StepRecords]_vars

\* A run of an output-enabled component has ended with two visited steps;
\* tracking began at the second, and the report has the two records of that
\* step only.
C12_Witness ==
  /\ vis.phase = "done" /\ vis.registered
  /\ vis.core.enabled = {"simpleNbox"} /\ vis.core.trackDate = EndDate
  /\ Len(vis.visits) = 2
  /\ Len(vis.visitor.csvFile) = 2
  /\ vis.visitor.csvFile[1].pool_name = "atmos_c"
  /\ vis.visitor.csvFile[2].pool_name = "earth_c"

\* The fractions of pool x over its sources sum to 1, each within [0, 1].
FractionsSumToOne(x) ==
  /\ RatSum(get_sources(x), [i \in get_sources(x) |-> get_fraction(x, i)]) = One
  /\ \A i \in get_sources(x) :
       RatLeq(Zero, get_fraction(x, i)) /\ RatLeq(get_fraction(x, i), One)

\* C13: after any sequence of adds and subtracts, a pool with tracking
\* enabled that is not empty has fractions, over the sources get_sources
\* returns, that sum to 1 and lie each in [0, 1]; so has every record
\* print_pool writes for such a pool.
C13_FractionsSumToOne ==
  pools.on =>
    \A x \in {pools.A, pools.B} :
      (x.tracking /\ x.value > 0) =>
        /\ FractionsSumToOne(x)
        /\ LET rec == print_pool(CSVFluxPoolVisitor, x).csvFile[1]
           IN /\ DOMAIN rec.sources = get_sources(x)
              /\ RatSum(DOMAIN rec.sources, rec.sources) = One

\* After transfers in both directions a tracked pool holds carbon of both
\* sources in unequal parts.
C13_Witness ==
  /\ pools.on /\ pools.ops >= 2 /\ pools.op \in {"AB", "BA"} /\ ~pools.err
  /\ pools.A.tracking /\ pools.A.value > 0
  /\ get_sources(pools.A) = {"A", "B"}
  /\ get_fraction(pools.A, "A") # get_fraction(pools.A, "B")

\* A transfer of x from pool a into pool b conserves the total magnitude,
\* leaves the mix of a as it was, and gives b the weighted mix.
TransferIsWeighted(a, b, x) ==
  LET t == Transfer(a, b, x)
  IN /\ ~t.err
     /\ t.from.value + t.to.value = a.value + b.value
     /\ t.to.value = b.value + x
     /\ t.from.fractions = a.fractions
     /\ \A i \in DOMAIN a.fractions \cup DOMAIN b.fractions :
          RatMul(get_fraction(t.to, i), RatInt(b.value + x))
            = RatAdd(RatMul(get_fraction(b, i), RatInt(b.value)),
                     RatMul(get_fraction(a, i), RatInt(x)))

\* C14: a transfer of x, 0 < x <= magnitude of A, from tracked pool A into
\* tracked pool B conserves the magnitude of A plus B and gives B for every
\* source i the fraction
\* (oldFractionB_i * oldMagnitudeB + fractionA_i * x) / (oldMagnitudeB + x);
\* from A = 100 all of A into B = 50 all of B, a transfer of 50 gives
\* B = 100, half of A and half of B.
C14_TransferFormula ==
  /\ (pools.on /\ pools.A.tracking /\ pools.B.tracking) =>
       /\ \A x \in 1..pools.A.value : TransferIsWeighted(pools.A, pools.B, x)
       /\ \A x \in 1..pools.B.value : TransferIsWeighted(pools.B, pools.A, x)
  /\ LET t == Transfer(fluxpool("A", 100, TRUE), fluxpool("B", 50, TRUE), 50)
     IN /\ ~t.err
        /\ t.from.value = 50 /\ t.to.value = 100
        /\ get_sources(t.to) = {"A", "B"}
        /\ get_fraction(t.to, "A") = <<1, 2>>
        /\ get_fraction(t.to, "B") = <<1, 2>>
        /\ get_fraction(t.from, "A") = One

\* Half of A, all of A, has been moved into B, all of B and as large as that
\* half: B has doubled and is half of A and half of B.
C14_Witness ==
  /\ pools.on /\ pools.op = "AB" /\ ~pools.err /\ pools.ops = 1
  /\ pools.A.tracking /\ pools.B.tracking
  /\ pools.A.value = 1 /\ pools.B.value = 2
  /\ get_fraction(pools.B, "A") = <<1, 2>>
  /\ get_fraction(pools.B, "B") = <<1, 2>>
  /\ get_fraction(pools.A, "A") = One

\* The capabilities a component declares as readable.
DeclaredReadable == {D_FFI_EMISSIONS} \cup DOMAIN OutputUnit
\* Capabilities known to the model and names that are none.
AnyCapability == Capabilities \cup DOMAIN OtherInputUnit \cup DOMAIN OutputUnit

\* C15: a GETDATA message for a capability that no component declares as
\* readable is refused by the core, which invokes no handler (no value, core
\* unchanged), and the sendmessage call that sent it ends in an error after
\* that first message, without a data frame, whatever the unit given.
C15_UnknownCapability ==
  \A h \in Handles : Valid(h) =>
    \A cap \in AnyCapability \ DeclaredReadable :
      /\ \A d \in Dates \cup {UndefinedIndex} :
           LET m == Core_sendMessage(CoreOf(h), M_GETDATA, cap, d, 0, U_UNDEFINED)
           IN m.err /\ m.core = CoreOf(h)
      /\ \A v \in Vectors, unit \in UnitNames :
           LET r == sendmessage(registry, env, h, M_GETDATA, cap, v[1], v[2], unit)
           IN /\ r.err /\ r.out = <<>>
              /\ r.reg = registry /\ r.env = env
              /\ Len(r.calls) = 1 /\ r.calls[1][3] = cap

\* A GETDATA for a name that is no capability has ended in an error at the
\* core, on a core that has been run.
C15_Witness ==
  /\ last.op = "sendmessage" /\ last.err
  /\ last.args[1] = M_GETDATA /\ last.args[2] = "no_such_capability"
  /\ last.calls = <<"sendMessage">>
  /\ Valid(last.h) /\ CoreOf(last.h).currentDate > StartDate

\* Every failure of the set-up, of the core's reset and run, and of a message
\* at the core ends the call on handle h in an error.
CoreFailuresSurface(h) ==
  /\ \A fileExists \in BOOLEAN, fail \in SetupFailures :
       (~fileExists \/ fail # "none")
         => newcore_impl(registry, env, fileExists, fail).err
  /\ \A args \in DateArgs, fail \in BOOLEAN :
       LET date == IF args = <<>> THEN ResetDefaultDate ELSE args[1]
       IN Core_reset(CoreOf(h), date, fail).err
            => reset(registry, env, h, args, fail).err
  /\ \A args \in RunArgs, fr \in BOOLEAN, fu \in RunFailures :
       LET runtodate == IF args = <<>> THEN RunDefaultDate ELSE args[1]
           owed == ~env[h].clean
           r0 == Core_reset(CoreOf(h), env[h].reset_date, fr)
           c == IF owed THEN r0.core ELSE CoreOf(h)
           r == run(registry, env, h, args, fr, fu)
       IN /\ (owed /\ r0.err) => r.err
          /\ (~(owed /\ r0.err) /\ Core_run(c, runtodate, fu).err) => r.err
  /\ \A t \in MsgTypes, cap \in Capabilities, v \in Vectors, unit \in UnitNames :
       LET p == parseUnitsName(unit)
           utype == IF p.err THEN U_UNDEFINED ELSE p.utype
       IN ((Len(v[2]) # Len(v[1]) /\ Len(v[2]) # 1)
            \/ sendmessage_loop(CoreOf(h), t, cap, v[1], v[2], utype, 1, <<>>, <<>>).err)
          => sendmessage(registry, env, h, t, cap, v[1], v[2], unit).err

\* A unit name that cannot be parsed ends a sendmessage call of these types
\* on handle h in an error.
UnitFailureSurfaces(h, Types) ==
  \A t \in Types, cap \in Capabilities, v \in Vectors, unit \in UnitNames :
    parseUnitsName(unit).err
      => sendmessage(registry, env, h, t, cap, v[1], v[2], unit).err

\* C16 as stated: no failure is swallowed; whenever a step inside
\* newcore_impl, reset, run or sendmessage fails, unit-name parsing inside
\* sendmessage for any message type included, the call ends in an error.
C16_NoFailureSwallowed ==
  \A h \in Handles : Valid(h) =>
    CoreFailuresSurface(h) /\ UnitFailureSurfaces(h, MsgTypes)

\* C16 (amended): whenever a step inside newcore_impl, reset, run or
\* sendmessage fails the call ends in an error, except that a unit name
\* that cannot be parsed ends only a SETDATA in an error: for a GETDATA the
\* failure is caught, the unit becomes the undefined one, and the call ends
\* in an error only if the core refuses a message.
C16_OnlyGetdataUnitSwallowed ==
  \A h \in Handles : Valid(h) =>
    /\ CoreFailuresSurface(h)
    /\ UnitFailureSurfaces(h, {M_SETDATA})
    /\ \A cap \in Capabilities, v \in Vectors, unit \in UnitNames :
         parseUnitsName(unit).err =>
           (sendmessage(registry, env, h, M_GETDATA, cap, v[1], v[2], unit).err
              <=> sendmessage_loop(CoreOf(h), M_GETDATA, cap, v[1], v[2], U_UNDEFINED,
                                   1, <<>>, <<>>).err)

\* A GETDATA with a unit name that cannot be parsed has returned normally.
C16_Witness ==
  /\ last.op = "sendmessage" /\ ~last.err
  /\ last.args = <<M_GETDATA, D_GLOBAL_TAS, "furlongs">>
  /\ last.calls = <<"sendMessage", "sendMessage">>

\* C17: a reset(core, date) that succeeds leaves the handle clean if
\* date <= reset_date and leaves the clean flag as it was if
\* date > reset_date (a dirty handle stays dirty); reset_date and the rest of
\* the handle are unchanged; a reset that the core refuses ends in an error
\* with the handle unchanged.
C17_ResetCleanFlag ==
  \A h \in Handles : Valid(h) =>
    \A args \in DateArgs, fail \in BOOLEAN :
      LET date == IF args = <<>> THEN ResetDefaultDate ELSE args[1]
          r == reset(registry, env, h, args, fail)
      IN /\ r.err <=> Core_reset(CoreOf(h), date, fail).err
         /\ r.err => r.env = env
         /\ ~r.err =>
              /\ r.env[h].clean = (IF date <= env[h].reset_date THEN TRUE
                                   ELSE env[h].clean)
              /\ r.env = [env EXCEPT ![h].clean = r.env[h].clean]

\* A reset to a date after reset_date has succeeded on a dirty handle, which
\* is still dirty.
C17_Witness ==
  /\ last.op = "reset" /\ ~last.err /\ last.args # <<>>
  /\ Valid(last.h)
  /\ last.args[1] > env[last.h].reset_date
  /\ ~env[last.h].clean
  /\ CoreOf(last.h).currentDate = last.args[1]

\* Unit names the parser knows, one it does not, and a missing one.
AnyUnitName == UnitNames \cup {""}

\* C18: in sendmessage a unit name that is missing or not recognized makes a
\* SETDATA end in an error before any message reaches the core, which is
\* unchanged; a GETDATA goes on, sends every message with the undefined unit
\* and returns, for each date, the unit the core reports.
C18_UnitParse ==
  \A h \in Handles : Valid(h) =>
    \A cap \in Capabilities, v \in Vectors, unit \in AnyUnitName :
      parseUnitsName(unit).err =>
        /\ LET r == sendmessage(registry, env, h, M_SETDATA, cap, v[1], v[2], unit)
           IN r.err /\ r.calls = <<>> /\ r.out = <<>>
              /\ r.reg = registry /\ r.env = env
        /\ LET r == sendmessage(registry, env, h, M_GETDATA, cap, v[1], v[2], unit)
           IN /\ r.calls # <<>>
              /\ \A i \in DOMAIN r.calls :
                   r.calls[i][2] = M_GETDATA /\ r.calls[i][6] = U_UNDEFINED
              /\ ~r.err =>
                   /\ Len(r.calls) = Len(v[1]) /\ Len(r.out) = Len(v[1])
                   /\ \A i \in DOMAIN r.out :
                        LET m == Core_sendMessage(CoreOf(h), M_GETDATA, cap,
                                                  r.calls[i][4], r.calls[i][5],
                                                  U_UNDEFINED)
                        IN /\ r.out[i][4] = unitsName(m.utype)
                           /\ r.out[i][4] # unitsName(U_UNDEFINED)
                           /\ r.out[i][3] = m.value
              /\ r.err =>
                   Core_sendMessage(CoreOf(h), M_GETDATA, cap,
                                    r.calls[Len(r.calls)][4],
                                    r.calls[Len(r.calls)][5], U_UNDEFINED).err

\* A SETDATA of the emissions with a unit name that cannot be parsed has
\* ended in an error with no message sent, on a core that takes the same
\* message with the right unit.
C18_Witness ==
  /\ last.op = "sendmessage" /\ last.err /\ last.calls = <<>>
  /\ last.args = <<M_SETDATA, D_FFI_EMISSIONS, "furlongs">>
  /\ Valid(last.h)
  /\ ~sendmessage(registry, env, last.h, M_SETDATA, D_FFI_EMISSIONS,
                  <<StartDate + 1>>, <<1>>, "Pg C/yr").err

\* The years of the rows of the driver's emissions stream.
StreamYears == {main.stream[i][0] : i \in (HeaderLines + 1)..Len(main.stream)}

\* The years of the rows sent so far, and the capabilities sent for a year.
SentYears == {main.sent[i][2] : i \in DOMAIN main.sent}
SentFor(year) == [i \in {j \in DOMAIN main.sent : main.sent[j][2] = year} |->
                    main.sent[i][1]]

\* Every year that was sent got each of the nine messages of its row once,
\* the emissions with the value of the row.
RowsSentOnce ==
  \A y \in SentYears :
    /\ Cardinality(DOMAIN SentFor(y)) = Len(Messages(EmptyLine))
    /\ {SentFor(y)[i] : i \in DOMAIN SentFor(y)}
         = {Messages(EmptyLine)[k][1] : k \in DOMAIN Messages(EmptyLine)}
    /\ \E i \in (HeaderLines + 1)..Len(main.stream) :
         main.stream[i][0] = y /\ main.core.emiss[y] = main.stream[i][1]

\* The driver has run the core to tlast and sent nothing since.
RunReturned ==
  /\ main.pc \in {"loop1", "loop2"}
  /\ main.tlast > Core_getStartDate(main.core)

\* C19 as stated: with one row per year, in order, covering every run date,
\* when run(t) is called the rows sent are those with 2010 < year <= t, each
\* sent once; none with year <= 2010 and none with year > t.
C19_RowsSentBeforeRun ==
  RunReturned =>
    /\ SentYears = {y \in StreamYears : y > EmissFrom /\ y <= main.tlast}
    /\ RowsSentOnce

\* C19 (amended): when run(t) is called the rows sent are those with
\* year > 2010, year >= the start date and year <= t, each sent once; no row
\* with year <= 2010, with a year before the start date or with year > t has
\* been sent, and after the last run of the first loop nothing is sent.
C19_RowsFromStartSentBeforeRun ==
  /\ RunReturned =>
       /\ SentYears = {y \in StreamYears :
                         /\ y > EmissFrom
                         /\ y >= Core_getStartDate(main.core)
                         /\ y <= main.tlast}
       /\ RowsSentOnce
  /\ main.pc = "done" =>
       SentYears = {y \in StreamYears :
                      y > EmissFrom /\ y >= main.ini.start /\ y <= main.tlast}

\* A driver whose configuration starts after 2011 has run the core to the
\* first date of its loop; the row of 2011 was read and not sent.
C19_Witness ==
  /\ RunReturned /\ main.pc = "loop1"
  /\ Core_getStartDate(main.core) = MainLateStart
  /\ main.tlast = MainLateStart + MainStep
  /\ (EmissFrom + 1) \in StreamYears
  /\ (EmissFrom + 1) \notin SentYears
  /\ MainLateStart \in SentYears /\ main.tlast \in SentYears

\* The state of the components before date d of core c.
StateBefore(c, d) == IF d - 1 = c.startDate THEN SpinupVal ELSE c.vals[d - 1]

LiveCores(reg) == {i \in 0..(Len(reg) - 1) : getcore(reg, i) # NULL}

\* C21: a newcore_impl call that fails (missing input file, init failure,
\* configuration parse failure or prepareToRun failure) leaves the set of live
\* core instances unchanged: no instance created during the failed call
\* remains registered.
C21_FailedSetupLeavesRegistry ==
  /\ \A fileExists \in BOOLEAN, fail \in SetupFailures :
       LET r == newcore_impl(registry, env, fileExists, fail)
       IN r.err => LiveCores(r.reg) = LiveCores(registry)
  /\ (last.op = "newcore_impl" /\ last.err) =>
       \A i \in LiveCores(registry) : \E h \in Handles : env[h].coreidx = i

\* A newcore_impl call has failed after mkcore: the instance it created is
\* live in the registry and no handle refers to it.
C21_Witness ==
  /\ last.op = "newcore_impl" /\ last.err /\ last.calls # <<>>
  /\ \E i \in LiveCores(registry) : \A h \in Handles : env[h].coreidx # i

\* The date vectors of a sendmessage call, a missing date (NA) among them,
\* and for each the value vectors R accepts: one value for every date, or one
\* value per date.
DateVectors ==
  UNION {[1..n -> {StartDate + 1, EndDate, NA_REAL}] : n \in 1..MaxDates}
ValueVectors(date) == {<<1>>, [i \in 1..Len(date) |-> i % NumVals]}

\* The message of index i (1-based) of a call: its date, or the undefined
\* index for NA, and the value of that index, or the only value.
MessageAt(msgstr, capstr, date, value, utype, i) ==
  <<"sendMessage", msgstr, capstr,
    IF date[i] = NA_REAL THEN UndefinedIndex ELSE date[i],
    IF Len(value) = 1 THEN value[1] ELSE value[i],
    utype>>

\* The answer of the core to the message of index i after it has accepted
\* the messages before it, and the core after the first k messages.
RECURSIVE CoreAfterMessages(_, _, _, _, _, _, _)
AnswerAt(c, msgstr, capstr, date, value, utype, i) ==
  LET m == MessageAt(msgstr, capstr, date, value, utype, i)
  IN Core_sendMessage(CoreAfterMessages(c, msgstr, capstr, date, value, utype, i - 1),
                      m[2], m[3], m[4], m[5], m[6])
CoreAfterMessages(c, msgstr, capstr, date, value, utype, k) ==
  IF k = 0 THEN c
  ELSE AnswerAt(c, msgstr, capstr, date, value, utype, k).core

\* The index of the first message the core refuses, Len(date) + 1 if none.
FirstFailure(c, msgstr, capstr, date, value, utype) ==
  LET failing == {i \in 1..Len(date) :
                    AnswerAt(c, msgstr, capstr, date, value, utype, i).err}
  IN IF failing = {} THEN Len(date) + 1
     ELSE CHOOSE i \in failing : \A j \in failing : i <= j

\* C22: sendmessage delivers one message per element of the date vector in
\* index order (a length-1 value is reused for every date) and is not atomic:
\* if the message at index i fails, exactly the messages at the indices
\* before i have been delivered to the core and their effects remain, no
\* further message is sent, and no result is returned.
C22_SendmessageNotAtomic ==
  \A h \in Handles : Valid(h) =>
    \A t \in MsgTypes, cap \in {D_FFI_EMISSIONS, D_GLOBAL_TAS}, date \in DateVectors :
      \A value \in ValueVectors(date) :
        LET unit == unitsName(U_PGC_YR)
            r == sendmessage(registry, env, h, t, cap, date, value, unit)
            f == FirstFailure(CoreOf(h), t, cap, date, value, U_PGC_YR)
            sent == IF f <= Len(date) THEN f ELSE Len(date)
        IN /\ r.calls = [i \in 1..sent |-> MessageAt(t, cap, date, value, U_PGC_YR, i)]
           /\ CoreAfter(r, h)
                = CoreAfterMessages(CoreOf(h), t, cap, date, value, U_PGC_YR, f - 1)
           /\ \A o \in Handles \ {h} : CoreAfter(r, o) = CoreOf(o)
           /\ r.env = env
           /\ r.err <=> f <= Len(date)
           /\ r.err => r.out = <<>>
           /\ ~r.err =>
                /\ Len(r.out) = Len(date)
                /\ \A i \in 1..Len(date) :
                     /\ r.out[i][1] = date[i]
                     /\ r.out[i][3]
                          = AnswerAt(CoreOf(h), t, cap, date, value, U_PGC_YR, i).value

\* A SETDATA call has failed at its second message, the missing date, after
\* the core accepted the first: the emissions of the end date, which no
\* other call sets to 1, are 1.
C22_Witness ==
  /\ last.op = "sendmessage" /\ last.err
  /\ last.args[1] = M_SETDATA
  /\ last.calls = <<"sendMessage", "sendMessage">>
  /\ CoreOf(last.h).emiss[EndDate] = 1

====
